---- MODULE Spec2Model ----
(***************************************************************************)
(* Model of the SVG extraction / splice / repair pipeline of               *)
(* renaissance-ink (server/services/openai.ts, server/openai.ts,           *)
(* server/routes/svg.ts).                                                  *)
(*                                                                         *)
(* A parsed document is a record                                           *)
(*   [decl, root, n, node]                                                 *)
(* decl : whether an XML declaration precedes the root element,            *)
(* root : the index of the top element, n : the number of nodes,           *)
(* node : 1..n -> [tag, attrs, kids, inner].                               *)
(* A node index is the identity of a DOM node; kids is the ordered list of *)
(* child nodes; attrs maps attribute names to values; inner counts the     *)
(* elements nested inside a node that was parsed from a fragment string.   *)
(* Text and comment nodes carry the tags "#text" and "#comment".           *)
(***************************************************************************)
EXTENDS Integers, Sequences, FiniteSets, TLC

VARIABLES
  pc,                 \* "call" before the operation runs, then "returned" or "thrown"
  svgContent,         \* insertAnimations: the document parsed from svgContent
  animationElements,  \* insertAnimations: the batch of {elementId, animations}
  spliceOut,          \* insertAnimations: the document behind the returned text
  spliceErr,          \* insertAnimations: the error raised, "" when none
  op,                 \* the operation that ran, "" before it runs
  selectedElements,   \* extraction: the requested element ids, in order
  extractOut,         \* extraction: the document behind the returned SVG text
  extractErr,         \* extraction: the error raised or answered, "" when none
  generatedSvg,       \* repair: the candidate text (svg), a sequence of tokens
  originalText,       \* repair: the original text (originalSvg), a sequence of tokens
  textOut,            \* repair: the text returned by validateSvgStructure
  complete,           \* repair: the value returned by verifyCompleteSvg
  textErr,            \* repair: the error raised, "" when none
  referenceElements,  \* generation: the request's referenceElements
  completion,         \* generation: the chat completion received
  response,           \* generation: the AnimationResponse returned
  genErr,             \* generation: the error raised, "" when none
  db,                 \* routes: the rows of the animations table, row i has id i
  inflight,           \* routes: the state of each request
  boxes,              \* bounds: the boxes calculated for the elements and their groups
  pageSvg,            \* client: originalSvg of the Home page, "" before an upload
  pageSelection,      \* client: selectedElements of the Home page, a set of ids
  mutations,          \* client: the selections sent with the calls of mutation.mutate
  toasts,             \* client: the titles of the toasts shown
  reading,            \* client: the text of the file being read by onFileChange, "" when none
  records,            \* MemStorage: animations, a map from id to record
  currentId,          \* MemStorage: currentId
  handlers,           \* MemStorage route: the state of each request
  storageCall,        \* MemStorage: the name and the id argument of the last call
  storageErr          \* MemStorage: the message of the error the last call raised, "" when none

vars == <<pc, svgContent, animationElements, spliceOut, spliceErr,
          op, selectedElements, extractOut, extractErr,
          generatedSvg, originalText, textOut, complete, textErr,
          referenceElements, completion, response, genErr, db, inflight, boxes,
          pageSvg, pageSelection, mutations, toasts, reading,
          records, currentId, handlers, storageCall, storageErr>>

textVars == <<generatedSvg, originalText, textOut, complete, textErr>>
genVars == <<referenceElements, completion, response, genErr>>
routeVars == <<db, inflight>>
pageVars == <<pageSvg, pageSelection, mutations, toasts, reading>>
memVars == <<records, currentId, handlers, storageCall, storageErr>>

extractVars == <<selectedElements, extractOut, extractErr>>
spliceVars == <<animationElements, spliceOut, spliceErr>>

(***************************************************************************)
(* Bounds                                                                  *)
(***************************************************************************)
MaxNodes == 3   \* elements of an input document, root included
MaxBatch == 2   \* entries of an animation batch
MaxFrags == 1   \* fragment strings of one batch entry
MaxShapes == 2  \* shapes of a document given to the extraction
MaxSel == 2     \* ids of a selection

(***************************************************************************)
(* Generic helpers                                                         *)
(***************************************************************************)
Min(S) == CHOOSE x \in S : \A y \in S : x <= y

RECURSIVE SortedSeq(_)
SortedSeq(S) == IF S = {} THEN <<>> ELSE <<Min(S)>> \o SortedSeq(S \ {Min(S)})

RECURSIVE SeqSum(_)
SeqSum(s) == IF s = <<>> THEN 0 ELSE Head(s) + SeqSum(Tail(s))

SeqsUpTo(S, m) == UNION {[1..k -> S] : k \in 0..m}

Range(s) == {s[i] : i \in DOMAIN s}

(***************************************************************************)
(* DOM                                                                     *)
(***************************************************************************)
NoAttrs == [a \in {} |-> ""]

IdAttr(id) == IF id = "" THEN NoAttrs ELSE [a \in {"id"} |-> id]

NewNode(tag, attrs, inner) ==
  [tag |-> tag, attrs |-> attrs, kids |-> <<>>, inner |-> inner]

NullNode == NewNode("#null", NoAttrs, 0)

IsElement(nd) == nd.tag \notin {"#text", "#comment", "#null"}

getAttribute(nd, name) == IF name \in DOMAIN nd.attrs THEN nd.attrs[name] ELSE ""

RECURSIVE PreorderFrom(_, _), PreorderKids(_, _)
PreorderFrom(d, k) == <<k>> \o PreorderKids(d, d.node[k].kids)
PreorderKids(d, ks) ==
  IF ks = <<>> THEN <<>>
  ELSE PreorderFrom(d, Head(ks)) \o PreorderKids(d, Tail(ks))

\* the nodes of the document in tree order
DocOrder(d) == PreorderFrom(d, d.root)

RECURSIVE FirstWithTag(_, _, _)
FirstWithTag(d, order, tag) ==
  IF order = <<>> THEN 0
  ELSE IF d.node[Head(order)].tag = tag THEN Head(order)
  ELSE FirstWithTag(d, Tail(order), tag)

RECURSIVE FirstWithId(_, _, _)
FirstWithId(d, order, id) ==
  IF order = <<>> THEN 0
  ELSE IF IsElement(d.node[Head(order)]) /\ getAttribute(d.node[Head(order)], "id") = id
       THEN Head(order)
  ELSE FirstWithId(d, Tail(order), id)

\* document.querySelector(tag): the first element in tree order with that tag, 0 for null
querySelector(d, tag) == FirstWithTag(d, DocOrder(d), tag)

\* document.getElementById(id): the first element in tree order with that id, 0 for null
getElementById(d, id) == IF id = "" THEN 0 ELSE FirstWithId(d, DocOrder(d), id)

\* a new node that is not yet attached to the tree; its index is d.n + 1
createNode(d, nd) ==
  [d EXCEPT !.n = d.n + 1,
            !.node = [i \in 1..(d.n + 1) |-> IF i = d.n + 1 THEN nd ELSE d.node[i]]]

\* document.createElement(tag) / createElementNS(ns, tag)
createElement(d, tag) == createNode(d, NewNode(tag, NoAttrs, 0))

\* parent.appendChild(k): node k becomes the last child of parent
appendChildToRoot(d, parent, k) ==
  [d EXCEPT !.node[d.root].kids = Append(@, k)]

appendChild(d, parent, k) ==
  [d EXCEPT !.node[parent].kids = Append(@, k)]

\* parent.insertBefore(k, parent.firstChild)
insertFirst(d, parent, k) ==
  [d EXCEPT !.node[parent].kids = <<k>> \o @]

\* element.setAttribute(name, value)
setAttribute(d, k, name, value) ==
  [d EXCEPT !.node[k].attrs = (name :> value) @@ @]

\* element.removeAttribute(name)
removeAttribute(d, k, name) ==
  LET old == d.node[k].attrs IN
  [d EXCEPT !.node[k].attrs = [a \in (DOMAIN old) \ {name} |-> old[a]]]

hasAttribute(nd, name) == name \in DOMAIN nd.attrs

\* element.cloneNode(true): a detached copy of the subtree of k; the copy of k
\* is the last node created, at index (result).n
RECURSIVE cloneNode(_, _), cloneKids(_, _, _)
cloneNode(d, k) ==
  LET r == cloneKids(d, d.node[k].kids, <<>>) IN
  createNode(r.doc, [d.node[k] EXCEPT !.kids = r.kids])
cloneKids(d, ks, acc) ==
  IF ks = <<>> THEN [doc |-> d, kids |-> acc]
  ELSE LET c == cloneNode(d, Head(ks)) IN cloneKids(c, Tail(ks), Append(acc, c.n))

\* element.outerHTML: the text of the subtree of k, and of nothing outside it
outerHTML(d, k) == [d EXCEPT !.decl = FALSE, !.root = k]

EmptyDoc == [decl |-> FALSE, root |-> 1, n |-> 1,
             node |-> [i \in 1..1 |-> NewNode("#null", NoAttrs, 0)]]

(***************************************************************************)
(* Fragment strings.  A fragment is a sequence of lexical pieces, each a   *)
(* tag, a run of text, a run of white space or a comment.                  *)
(***************************************************************************)
TokKind(t) ==
  CASE t \in {"<animate/>", "<set/>"} -> "selfclose"
    [] t \in {"<animate>", "<set>"} -> "open"
    [] t \in {"</animate>", "</set>"} -> "close"
    [] t = " " -> "ws"
    [] t = "<!--c-->" -> "comment"
    [] OTHER -> "text"

TokName(t) ==
  CASE t \in {"<animate/>", "<animate>", "</animate>"} -> "animate"
    [] t \in {"<set/>", "<set>", "</set>"} -> "set"
    [] OTHER -> ""

\* String.prototype.trim
RECURSIVE trimStart(_)
trimStart(f) ==
  IF f # <<>> /\ TokKind(Head(f)) = "ws" THEN trimStart(Tail(f)) ELSE f

RECURSIVE trimEnd(_)
trimEnd(f) ==
  IF f # <<>> /\ TokKind(f[Len(f)]) = "ws" THEN trimEnd(SubSeq(f, 1, Len(f) - 1)) ELSE f

trim(f) == trimEnd(trimStart(f))

\* The HTML fragment parser behind template.innerHTML, run over the pieces
\* that follow the start tag of the first node: stack holds the names of the
\* elements still open below that node (the node itself is its first entry).
\* A self-closing mark on a tag that HTML does not know is ignored, so
\* "<animate/>" opens an element like "<animate>" does.  Returns the number
\* of elements that end up inside the first node.
RECURSIVE LastIndexOf(_, _)
LastIndexOf(stack, name) ==
  IF stack = <<>> THEN 0
  ELSE IF stack[Len(stack)] = name THEN Len(stack)
  ELSE LastIndexOf(SubSeq(stack, 1, Len(stack) - 1), name)

RECURSIVE innerElements(_, _)
innerElements(rest, stack) ==
  IF rest = <<>> \/ stack = <<>> THEN 0
  ELSE LET t == Head(rest) IN
       CASE TokKind(t) \in {"open", "selfclose"} ->
              1 + innerElements(Tail(rest), Append(stack, TokName(t)))
         [] TokKind(t) = "close" ->
              LET i == LastIndexOf(stack, TokName(t)) IN
              IF i = 0 THEN innerElements(Tail(rest), stack)
              ELSE innerElements(Tail(rest), SubSeq(stack, 1, i - 1))
         [] OTHER -> innerElements(Tail(rest), stack)

\* template.content.firstChild after template.innerHTML = markup
RECURSIVE templateFirstChild(_)
templateFirstChild(markup) ==
  IF markup = <<>> THEN NullNode
  ELSE LET t == Head(markup) IN
       CASE TokKind(t) \in {"open", "selfclose"} ->
              NewNode(TokName(t), NoAttrs, innerElements(Tail(markup), <<TokName(t)>>))
         [] TokKind(t) = "close" -> templateFirstChild(Tail(markup))
         [] TokKind(t) = "comment" -> NewNode("#comment", NoAttrs, 0)
         [] OTHER -> NewNode("#text", NoAttrs, 0)

(***************************************************************************)
(* insertAnimations (server/services/openai.ts)                            *)
(***************************************************************************)
Ok(d) == [ok |-> TRUE, doc |-> d, error |-> ""]
Throw(msg) == [ok |-> FALSE, doc |-> EmptyDoc, error |-> msg]

\* "Get or create defs element": a defs found anywhere in the document is
\* kept where it is, otherwise a new one becomes the first child of svg
ensureDefsAlways(d, svg) ==
  LET c == createElement(d, "defs") IN insertFirst(c, svg, c.n)

ensureDefs(d, svg) ==
  IF querySelector(d, "defs") # 0 THEN d
  ELSE LET c == createElement(d, "defs") IN insertFirst(c, svg, c.n)

RECURSIVE appendAnimationsLastFirst(_, _, _)
appendAnimationsLastFirst(d, element, animations) ==
  IF animations = <<>> THEN Ok(d)
  ELSE LET first == templateFirstChild(trim(animations[Len(animations)])) IN
       IF first = NullNode THEN Throw("TypeError")
       ELSE LET c == createNode(d, first) IN
            appendAnimationsLastFirst(appendChild(c, element, c.n), element,
                                      SubSeq(animations, 1, Len(animations) - 1))

\* the inner loop: for (const animation of animations)
RECURSIVE appendAnimations(_, _, _)
appendAnimations(d, element, animations) ==
  IF animations = <<>> THEN Ok(d)
  ELSE LET first == templateFirstChild(trim(Head(animations))) IN
       IF first = NullNode THEN Throw("TypeError")
       ELSE LET c == createNode(d, first) IN
            appendAnimations(appendChild(c, element, c.n), element, Tail(animations))

\* the outer loop: for (const { elementId, animations } of animationElements)
RECURSIVE processEntriesStopAtMissing(_, _)
processEntriesStopAtMissing(d, entries) ==
  IF entries = <<>> THEN Ok(d)
  ELSE LET element == getElementById(d, Head(entries).elementId) IN
       IF element = 0 THEN Ok(d)
       ELSE LET r == appendAnimations(d, element, Head(entries).animations) IN
            IF r.ok THEN processEntriesStopAtMissing(r.doc, Tail(entries)) ELSE r

RECURSIVE processEntriesThrowAtMissing(_, _)
processEntriesThrowAtMissing(d, entries) ==
  IF entries = <<>> THEN Ok(d)
  ELSE LET element == getElementById(d, Head(entries).elementId) IN
       IF element = 0 THEN Throw("TypeError")
       ELSE LET r == appendAnimations(d, element, Head(entries).animations) IN
            IF r.ok THEN processEntriesThrowAtMissing(r.doc, Tail(entries)) ELSE r

RECURSIVE processEntries(_, _)
processEntries(d, entries) ==
  IF entries = <<>> THEN Ok(d)
  ELSE LET element == getElementById(d, Head(entries).elementId) IN
       IF element = 0 THEN processEntries(d, Tail(entries))
       ELSE LET r == appendAnimations(d, element, Head(entries).animations) IN
            IF r.ok THEN processEntries(r.doc, Tail(entries)) ELSE r

insertAnimations(d, entries) ==
  LET svg == querySelector(d, "svg") IN
  IF svg = 0 THEN Throw("Invalid SVG: no svg element found")
  ELSE LET r == processEntries(ensureDefs(d, svg), entries) IN
       IF r.ok THEN Ok(outerHTML(r.doc, svg)) ELSE r

(***************************************************************************)
(* Inputs of the splice                                                    *)
(***************************************************************************)
NodeTags == {"defs", "g"}
NodeIds == {"", "a"}
RootIds == {"", "r"}
BatchIds == {"a", "r", "zz"}

FragAnimate == <<"<animate/>">>
FragText == <<"text">>
FragBlank == <<" ">>
FragTwo == <<"<animate/>", "<set/>">>
FragSet == <<"<set/>">>
Fragments == {FragAnimate, FragText, FragBlank, FragTwo}

\* parent functions of the ordered trees over nodes 1..n with root 1
Parents(n) == {p \in [2..n -> 1..n] : \A i \in 2..n : p[i] < i}

MakeDoc(decl, n, p, tags, ids) ==
  [decl |-> decl, root |-> 1, n |-> n,
   node |-> [k \in 1..n |->
      [tag |-> IF k = 1 THEN "svg" ELSE tags[k],
       attrs |-> IdAttr(ids[k]),
       kids |-> SortedSeq({i \in 2..n : p[i] = k}),
       inner |-> 0]]]

SvgDocs ==
  UNION {{MakeDoc(decl, n, p, tags, [k \in 1..n |-> IF k = 1 THEN rid ELSE ids[k]]) :
            decl \in BOOLEAN, p \in Parents(n), tags \in [2..n -> NodeTags],
            ids \in [2..n -> NodeIds], rid \in RootIds}
         : n \in 1..MaxNodes}

\* a text that holds no svg element at all
NoSvgDoc == [decl |-> FALSE, root |-> 1, n |-> 1,
             node |-> [k \in 1..1 |-> NewNode("p", NoAttrs, 0)]]

Docs == SvgDocs \cup {NoSvgDoc}

\* the animations of an entry: at most MaxFrags fragments, or the two
\* fragments <animate/> and <set/> in this order
AnimationLists == SeqsUpTo(Fragments, MaxFrags) \cup {<<FragAnimate, FragSet>>}

Entries == [elementId : BatchIds, animations : AnimationLists]
Batches == SeqsUpTo(Entries, MaxBatch)

(***************************************************************************)
(* Specification of the splice                                             *)
(***************************************************************************)
PageIdle ==
  /\ pageSvg = ""
  /\ pageSelection = {}
  /\ mutations = <<>>
  /\ toasts = <<>>
  /\ reading = ""

MemIdle ==
  /\ records = <<>>
  /\ currentId = 1
  /\ handlers = <<>>
  /\ storageCall = [name |-> "", id |-> 0]
  /\ storageErr = ""

TextIdle ==
  /\ generatedSvg = <<>>
  /\ originalText = <<>>
  /\ textOut = <<>>
  /\ complete = FALSE
  /\ textErr = ""

NoCompletion == [content |-> "none", animations |-> <<>>, parameters |-> <<>>, explanation |-> ""]
NoResponse == [animatedSvg |-> EmptyDoc, suggestedParams |-> <<>>, explanation |-> ""]

RoutesIdle ==
  /\ db = <<>>
  /\ inflight = <<>>

NoBoxes == [element |-> <<>>, group |-> <<>>]

GenIdle ==
  /\ referenceElements = <<>>
  /\ completion = NoCompletion
  /\ response = NoResponse
  /\ genErr = ""

InitSplice ==
  /\ PageIdle
  /\ MemIdle
  /\ pc = "call"
  /\ op = ""
  /\ selectedElements = <<>>
  /\ extractOut = EmptyDoc
  /\ extractErr = ""
  /\ svgContent \in Docs
  /\ animationElements \in Batches
  /\ spliceOut = EmptyDoc
  /\ spliceErr = ""
  /\ TextIdle
  /\ GenIdle
  /\ RoutesIdle
  /\ boxes = NoBoxes

InsertAnimations ==
  /\ pc = "call"
  /\ LET r == insertAnimations(svgContent, animationElements) IN
       /\ pc' = IF r.ok THEN "returned" ELSE "thrown"
       /\ spliceOut' = r.doc
       /\ spliceErr' = r.error
  /\ op' = "insertAnimations"
  /\ UNCHANGED <<svgContent, animationElements, extractVars, textVars, genVars, routeVars, boxes, pageVars, memVars>>

NextSplice == InsertAnimations

SpecSplice == InitSplice /\ [][NextSplice]_vars

(***************************************************************************)
(* JavaScript numbers.  v is the value in tenths, so that a tenth of an    *)
(* integer is exact; k tells a number from NaN and the two infinities.     *)
(***************************************************************************)
Num(tenths) == [k |-> "num", v |-> tenths]
NaN == [k |-> "nan", v |-> 0]
PosInf == [k |-> "pinf", v |-> 0]
NegInf == [k |-> "ninf", v |-> 0]

isNaN(a) == a.k = "nan"
isFinite(a) == a.k = "num"

\* a + b and a - b for operands that are finite or NaN
Add(a, b) == IF isNaN(a) \/ isNaN(b) THEN NaN ELSE Num(a.v + b.v)
Sub(a, b) == IF isNaN(a) \/ isNaN(b) THEN NaN ELSE Num(a.v - b.v)
Neg(a) == IF isNaN(a) THEN NaN ELSE Num(0 - a.v)

\* a * 0.1
TimesTenth(a) == IF isNaN(a) THEN NaN ELSE Num(a.v \div 10)

\* Math.min and Math.max
MathMin(a, b) ==
  CASE isNaN(a) \/ isNaN(b) -> NaN
    [] a.k = "ninf" \/ b.k = "ninf" -> NegInf
    [] a.k = "pinf" -> b
    [] b.k = "pinf" -> a
    [] OTHER -> IF a.v <= b.v THEN a ELSE b

MathMax(a, b) ==
  CASE isNaN(a) \/ isNaN(b) -> NaN
    [] a.k = "pinf" \/ b.k = "pinf" -> PosInf
    [] a.k = "ninf" -> b
    [] b.k = "ninf" -> a
    [] OTHER -> IF a.v >= b.v THEN a ELSE b

\* the decimal numerals that occur in the attribute values of the inputs
NumeralValue ==
  [s \in {"0", "5", "10", "20", "30", "40", "50", "-10"} |->
     CASE s = "0" -> 0 [] s = "5" -> 5 [] s = "10" -> 10 [] s = "20" -> 20
       [] s = "30" -> 30 [] s = "40" -> 40 [] s = "50" -> 50 [] s = "-10" -> 0 - 10]

\* parseFloat: the number a string starts with, NaN when it starts with none
parseFloat(str) ==
  IF str \in DOMAIN NumeralValue THEN Num(10 * NumeralValue[str]) ELSE NaN

(***************************************************************************)
(* Bounding boxes (server/routes/svg.ts)                                   *)
(***************************************************************************)
Box(x0, y0, x1, y1) == [minX |-> x0, minY |-> y0, maxX |-> x1, maxY |-> y1]

DefaultBox == Box(Num(0), Num(0), Num(1000), Num(1000))

EmptyBox == Box(PosInf, PosInf, NegInf, NegInf)

\* parseFloat(element.getAttribute(name) || '0')
numericAttribute(nd, name) ==
  parseFloat(IF hasAttribute(nd, name) /\ nd.attrs[name] # "" THEN nd.attrs[name] ELSE "0")

foldX(b, n) == [b EXCEPT !.minX = MathMin(@, n), !.maxX = MathMax(@, n)]
foldY(b, n) == [b EXCEPT !.minY = MathMin(@, n), !.maxY = MathMax(@, n)]

\* d.match(/-?\d+\.?\d*/g): the numerals among the pieces of a path description
RECURSIVE pathNumbers(_)
pathNumbers(d) ==
  IF d = <<>> THEN <<>>
  ELSE IF Head(d) \in DOMAIN NumeralValue THEN <<Head(d)>> \o pathNumbers(Tail(d))
  ELSE pathNumbers(Tail(d))

\* numbers.forEach((num, index) => ...): even positions (0-based) are X, odd are Y
RECURSIVE foldPath(_, _, _)
foldPath(b, numbers, index) ==
  IF numbers = <<>> THEN b
  ELSE LET n == parseFloat(Head(numbers)) IN
       IF isNaN(n) THEN foldPath(b, Tail(numbers), index + 1)
       ELSE IF index % 2 = 0 THEN foldPath(foldX(b, n), Tail(numbers), index + 1)
       ELSE foldPath(foldY(b, n), Tail(numbers), index + 1)

\* ['x','y','x1','y1','x2','y2','cx','cy'].forEach(attr => ...)
RECURSIVE foldCoordinates(_, _, _)
foldCoordinates(b, nd, names) ==
  IF names = <<>> THEN b
  ELSE LET value == numericAttribute(nd, Head(names)) IN
       IF isNaN(value) THEN foldCoordinates(b, nd, Tail(names))
       ELSE IF Head(names) \in {"x", "x1", "x2", "cx"}
            THEN foldCoordinates(foldX(b, value), nd, Tail(names))
       ELSE foldCoordinates(foldY(b, value), nd, Tail(names))

boxOrDefault(b) ==
  IF ~isFinite(b.minX) \/ ~isFinite(b.minY) \/ ~isFinite(b.maxX) \/ ~isFinite(b.maxY)
  THEN DefaultBox ELSE b

calculateElementBounds(nd) ==
  boxOrDefault(
    CASE nd.tag = "circle" ->
           LET cx == numericAttribute(nd, "cx")
               cy == numericAttribute(nd, "cy")
               r == numericAttribute(nd, "r")
           IN Box(Sub(cx, r), Sub(cy, r), Add(cx, r), Add(cy, r))
      [] nd.tag = "rect" ->
           LET x == numericAttribute(nd, "x")
               y == numericAttribute(nd, "y")
               width == numericAttribute(nd, "width")
               height == numericAttribute(nd, "height")
           IN Box(x, y, Add(x, width), Add(y, height))
      [] nd.tag = "path" ->
           foldPath(EmptyBox, pathNumbers(IF hasAttribute(nd, "d") THEN nd.attrs["d"] ELSE <<>>), 0)
      [] OTHER ->
           foldCoordinates(EmptyBox, nd, <<"x", "y", "x1", "y1", "x2", "y2", "cx", "cy">>))

RECURSIVE foldGroup(_, _, _)
foldGroup(b, d, elements) ==
  IF elements = <<>> THEN b
  ELSE LET bounds == calculateElementBounds(d.node[Head(elements)]) IN
       foldGroup(Box(MathMin(b.minX, bounds.minX), MathMin(b.minY, bounds.minY),
                     MathMax(b.maxX, bounds.maxX), MathMax(b.maxY, bounds.maxY)),
                 d, Tail(elements))

calculateGroupBoundsOfFirst(d, elements) ==
  boxOrDefault(foldGroup(EmptyBox, d, IF elements = <<>> THEN <<>> ELSE <<Head(elements)>>))

calculateGroupBounds(d, elements) == boxOrDefault(foldGroup(EmptyBox, d, elements))

(***************************************************************************)
(* Extraction of the selected elements                                     *)
(***************************************************************************)
\* selectedElements.map(id => document.getElementById(id)).filter(el => el !== null)
RECURSIVE resolveAllOrNone(_, _)
resolveAllOrNone(d, ids) ==
  IF \E i \in DOMAIN ids : getElementById(d, ids[i]) = 0 THEN <<>>
  ELSE IF ids = <<>> THEN <<>>
  ELSE <<getElementById(d, Head(ids))>> \o resolveAllOrNone(d, Tail(ids))

RECURSIVE resolveAll(_, _)
resolveAll(d, ids) ==
  IF ids = <<>> THEN <<>>
  ELSE LET el == getElementById(d, Head(ids)) IN
       IF el = 0 THEN resolveAll(d, Tail(ids)) ELSE <<el>> \o resolveAll(d, Tail(ids))

\* elements.forEach(element => group.appendChild(element.cloneNode(true)))
RECURSIVE appendClones(_, _, _)
appendClones(d, parent, elements) ==
  IF elements = <<>> THEN d
  ELSE LET c == cloneNode(d, Head(elements)) IN
       appendClones(appendChild(c, parent, c.n), parent, Tail(elements))

previewWindowUnpadded(bounds) ==
  LET width == Sub(bounds.maxX, bounds.minX)
      height == Sub(bounds.maxY, bounds.minY)
  IN [padding |-> Num(0), viewBoxSize |-> MathMax(width, height)]

\* the view window of the preview: padding is 10% of the largest dimension
previewWindow(bounds) ==
  LET width == Sub(bounds.maxX, bounds.minX)
      height == Sub(bounds.maxY, bounds.minY)
      padding == TimesTenth(MathMax(width, height))
  IN [padding |-> padding,
      viewBoxSize |-> Add(MathMax(width, height), Add(padding, padding))]

\* const previewSvg = document.createElement('svg') and its three attributes;
\* previewSvg is the last node created
previewRoot(d, viewBoxSize) ==
  LET d1 == createElement(d, "svg") IN
  setAttribute(
    setAttribute(
      setAttribute(d1, d1.n, "xmlns", "http://www.w3.org/2000/svg"),
      d1.n, "viewBox", <<Num(0), Num(0), viewBoxSize, viewBoxSize>>),
    d1.n, "preserveAspectRatio", "xMidYMid meet")

\* the group that translates the clones of the selected elements, appended
\* to previewSvg
previewGroup(d, previewSvg, elements, translateX, translateY) ==
  LET d1 == createElement(d, "g") IN
  appendChild(
    appendClones(
      setAttribute(d1, d1.n, "transform", <<"translate", translateX, translateY>>),
      d1.n, elements),
    previewSvg, d1.n)

\* router.post('/preview') of server/routes/svg.ts; an error is answered with
\* status 400
previewRoute(d, ids) ==
  LET elements == resolveAll(d, ids) IN
  IF elements = <<>> THEN Throw("No selected elements found")
  ELSE
    LET bounds == calculateGroupBounds(d, elements)
        window == previewWindow(bounds)
        rooted == previewRoot(d, window.viewBoxSize)
    IN Ok(outerHTML(
            previewGroup(rooted, rooted.n, elements,
                         Add(Neg(bounds.minX), window.padding),
                         Add(Neg(bounds.minY), window.padding)),
            rooted.n))

\* if (value) minimalSvg.setAttribute(name, value), value read from the original root
copyAttribute(d, from, to, name) ==
  IF hasAttribute(d.node[from], name)
  THEN setAttribute(d, to, name, d.node[from].attrs[name]) ELSE d

\* for (const id of elementIds) { ... minimalSvg.appendChild(element.cloneNode(true)) }
RECURSIVE copySelected(_, _, _)
copySelected(d, minimalSvg, ids) ==
  IF ids = <<>> THEN d
  ELSE LET element == getElementById(d, Head(ids)) IN
       IF element = 0 THEN copySelected(d, minimalSvg, Tail(ids))
       ELSE LET c == cloneNode(d, element) IN
            copySelected(appendChild(c, minimalSvg, c.n), minimalSvg, Tail(ids))

\* the root of the minimal SVG: xmlns, and viewBox, width, height of the original
minimalRoot(d, originalSvg) ==
  LET d1 == createElement(d, "svg")
      minimalSvg == d1.n
  IN copyAttribute(
       copyAttribute(
         copyAttribute(
           setAttribute(d1, minimalSvg, "xmlns", "http://www.w3.org/2000/svg"),
           originalSvg, minimalSvg, "viewBox"),
         originalSvg, minimalSvg, "width"),
       originalSvg, minimalSvg, "height")

\* extractSelectedElements of server/services/openai.ts
extractSelectedElements(d, ids) ==
  LET originalSvg == querySelector(d, "svg") IN
  IF originalSvg = 0 THEN Throw("Invalid SVG: no svg element found")
  ELSE LET d1 == minimalRoot(d, originalSvg) IN
       Ok(outerHTML(copySelected(d1, d1.n, ids), d1.n))

\* A style text is a sequence of declarations [prop, val] and separators.
Decl(prop, val) == [prop |-> prop, val |-> val]
Separator == [prop |-> ";", val |-> " "]

\* style.includes(prop + ':')
styleIncludes(style, prop) == \E i \in DOMAIN style : style[i].prop = prop

\* getAttribute(name) || rest, for an attribute that holds a style text
styleAttribute(nd, name, rest) ==
  IF hasAttribute(nd, name) /\ nd.attrs[name] # <<>> THEN nd.attrs[name] ELSE rest

\* combinedStyles += `; ${prop}: ${value}` when the element has the attribute
\* and the style does not declare the property
withPaint(combinedStyles, originalStyle, nd, prop) ==
  IF hasAttribute(nd, prop) /\ nd.attrs[prop] # "" /\ ~styleIncludes(originalStyle, prop)
  THEN combinedStyles \o <<Separator, Decl(prop, nd.attrs[prop])>>
  ELSE combinedStyles

\* combinedStyles.replace(/^;\s*/, '')
stripLeadingSeparatorNever(style) == style

stripLeadingSeparator(style) ==
  IF style # <<>> /\ Head(style) = Separator THEN Tail(style) ELSE style

\* the clone of one selected element, with its style rebuilt from the style
\* it had before it was highlighted
cloneWithOriginalStyle(d, element) ==
  LET c == cloneNode(d, element)
      clone == c.n
      nd == d.node[element]
      c1 == IF hasAttribute(nd, "transform")
            THEN setAttribute(c, clone, "transform", nd.attrs["transform"]) ELSE c
      originalStyle ==
        styleAttribute(nd, "data-original-style", styleAttribute(nd, "style", <<>>))
      c2 == removeAttribute(c1, clone, "style")
      combinedStyles ==
        withPaint(withPaint(originalStyle, originalStyle, nd, "fill"),
                  originalStyle, nd, "stroke")
  IN IF combinedStyles # <<>>
     THEN setAttribute(c2, clone, "style", stripLeadingSeparator(combinedStyles))
     ELSE c2

RECURSIVE copySelectedStyled(_, _, _)
copySelectedStyled(d, minimalSvg, ids) ==
  IF ids = <<>> THEN d
  ELSE LET element == getElementById(d, Head(ids)) IN
       IF element = 0 THEN copySelectedStyled(d, minimalSvg, Tail(ids))
       ELSE LET c == cloneWithOriginalStyle(d, element) IN
            copySelectedStyled(appendChild(c, minimalSvg, c.n), minimalSvg, Tail(ids))

\* the later extractSelectedElements that returns {svg, debug}; debug is a
\* JSON text of the original viewBox, width, height and the ids, and is no
\* part of the SVG
extractSelectedElementsDebug(d, ids) ==
  LET originalSvg == querySelector(d, "svg") IN
  IF originalSvg = 0 THEN Throw("Invalid SVG: no svg element found")
  ELSE LET d1 == minimalRoot(d, originalSvg) IN
       Ok(outerHTML(copySelectedStyled(d1, d1.n, ids), d1.n))

(***************************************************************************)
(* Inputs of the extraction                                                *)
(***************************************************************************)
HighlightStyle == <<Decl("outline", "2px solid blue")>>

ShapeCircle == [tag |-> "circle", attrs |-> [cx |-> "50", cy |-> "50", r |-> "10"]]
ShapeRect ==
  [tag |-> "rect",
   attrs |-> [x |-> "0", y |-> "0", width |-> "10", height |-> "10", fill |-> "red"]]
ShapeMarked ==
  [tag |-> "circle",
   attrs |-> [cx |-> "20", cy |-> "20", r |-> "5", style |-> HighlightStyle]
             @@ ("data-original-style" :> <<Decl("opacity", "1")>>)]
ShapePath ==
  [tag |-> "path",
   attrs |-> [d |-> <<"M", "10", "20", "L", "30", "40">>,
              style |-> <<Decl("fill", "blue")>>, stroke |-> "black"]]
ShapeGroup == [tag |-> "g", attrs |-> NoAttrs]

Shapes == {ShapeCircle, ShapeRect, ShapeMarked, ShapePath, ShapeGroup}
ShapeIds == {"", "a", "b"}
SelectionIds == {"a", "b", "c"}

RootAttrs == [viewBox |-> <<Num(0), Num(0), Num(1000), Num(1000)>>, width |-> "100"]

MakeShapeDoc(n, p, shapes, ids) ==
  [decl |-> FALSE, root |-> 1, n |-> n,
   node |-> [k \in 1..n |->
      [tag |-> IF k = 1 THEN "svg" ELSE shapes[k].tag,
       attrs |-> IF k = 1 THEN RootAttrs ELSE shapes[k].attrs @@ IdAttr(ids[k]),
       kids |-> SortedSeq({i \in 2..n : p[i] = k}),
       inner |-> 0]]]

ShapeDocs ==
  UNION {{MakeShapeDoc(n, p, shapes, ids) :
            p \in Parents(n), shapes \in [2..n -> Shapes], ids \in [2..n -> ShapeIds]}
         : n \in 1..(MaxShapes + 1)}

Selections == SeqsUpTo(SelectionIds, MaxSel)

(***************************************************************************)
(* Specification of the extraction                                         *)
(***************************************************************************)
InitExtract ==
  /\ PageIdle
  /\ MemIdle
  /\ pc = "call"
  /\ op = ""
  /\ selectedElements \in Selections
  /\ svgContent \in ShapeDocs \cup {NoSvgDoc}
  /\ extractOut = EmptyDoc
  /\ extractErr = ""
  /\ animationElements = <<>>
  /\ spliceOut = EmptyDoc
  /\ spliceErr = ""
  /\ TextIdle
  /\ GenIdle
  /\ RoutesIdle
  /\ boxes = NoBoxes

Extracted(name, r) ==
  /\ pc' = IF r.ok THEN "returned" ELSE "thrown"
  /\ op' = name
  /\ extractOut' = r.doc
  /\ extractErr' = r.error
  /\ UNCHANGED <<svgContent, selectedElements, spliceVars, textVars, genVars, routeVars, boxes, pageVars, memVars>>

PreviewRoute ==
  /\ pc = "call"
  /\ Extracted("previewRoute", previewRoute(svgContent, selectedElements))

ExtractSelectedElements ==
  /\ pc = "call"
  /\ Extracted("extractSelectedElements", extractSelectedElements(svgContent, selectedElements))

ExtractSelectedElementsDebug ==
  /\ pc = "call"
  /\ Extracted("extractSelectedElementsDebug",
               extractSelectedElementsDebug(svgContent, selectedElements))

NextExtract == PreviewRoute \/ ExtractSelectedElements \/ ExtractSelectedElementsDebug

SpecExtract == InitExtract /\ [][NextExtract]_vars

(***************************************************************************)
(* Properties of the splice                                                *)
(***************************************************************************)
NodeId(d, k) == getAttribute(d.node[k], "id")

\* the ids named by the batch
TargetIds == {animationElements[i].elementId : i \in DOMAIN animationElements}

\* the input element an id stands for: the first one in tree order that carries it
TargetOf(d, id) ==
  LET order == DocOrder(d)
      hits == {i \in DOMAIN order : NodeId(d, order[i]) = id}
  IN IF hits = {} THEN 0 ELSE order[Min(hits)]

HasDefs(d) == \E k \in 1..d.n : d.node[k].tag = "defs"

\* the entries of the batch whose id stands for element k of the input
EntriesFor(k) ==
  {i \in DOMAIN animationElements : TargetOf(svgContent, animationElements[i].elementId) = k}

RECURSIVE SumOver(_, _)
SumOver(S, f) ==
  IF S = {} THEN 0 ELSE LET x == CHOOSE y \in S : TRUE IN f[x] + SumOver(S \ {x}, f)

\* the number of fragment strings the batch supplies for element k
FragmentsFor(k) ==
  SumOver(EntriesFor(k), [i \in DOMAIN animationElements |-> Len(animationElements[i].animations)])

ElementCount(d) ==
  LET order == DocOrder(d) IN
  SumOver(DOMAIN order,
          [i \in DOMAIN order |->
             IF IsElement(d.node[order[i]]) THEN 1 + d.node[order[i]].inner ELSE 0])

ParentOf(d, k) ==
  LET ps == {p \in 1..d.n : \E i \in DOMAIN d.node[p].kids : d.node[p].kids[i] = k}
  IN IF ps = {} THEN 0 ELSE CHOOSE p \in ps : TRUE

RECURSIVE KeepUpTo(_, _)
KeepUpTo(ks, n) ==
  IF ks = <<>> THEN <<>>
  ELSE IF Head(ks) <= n THEN <<Head(ks)>> \o KeepUpTo(Tail(ks), n)
  ELSE KeepUpTo(Tail(ks), n)

\* no input element is deleted, reordered among its siblings or moved
StructureKept ==
  \A k \in 1..svgContent.n :
    /\ k \in Range(DocOrder(spliceOut))
    /\ ParentOf(spliceOut, k) = ParentOf(svgContent, k)
    /\ KeepUpTo(spliceOut.node[k].kids, svgContent.n) = svgContent.node[k].kids

\* the root svg gained exactly one child, a new empty defs, in front of its old children
GainedDefs(k) ==
  LET ks == spliceOut.node[k].kids IN
  /\ Len(ks) = Len(svgContent.node[k].kids) + 1
  /\ Tail(ks) = svgContent.node[k].kids
  /\ Head(ks) > svgContent.n
  /\ spliceOut.node[Head(ks)] = NewNode("defs", NoAttrs, 0)

\* C1 as stated: after insertAnimations, every element whose id is not named
\* by the batch, the root svg included, has the attributes and the children
\* it had in the input.
C1_NonInterference ==
  pc = "returned" =>
    \A k \in 1..svgContent.n :
      NodeId(svgContent, k) \notin TargetIds =>
        /\ spliceOut.node[k].attrs = svgContent.node[k].attrs
        /\ spliceOut.node[k].kids = svgContent.node[k].kids

\* C1 amended: every element whose id is not named by the batch has the
\* attributes and the children it had in the input, except that the root svg
\* of a document without any defs element gains a new empty defs as its
\* first child, its other children following unchanged.
C1_NonInterferenceButDefs ==
  pc = "returned" =>
    \A k \in 1..svgContent.n :
      NodeId(svgContent, k) \notin TargetIds =>
        /\ spliceOut.node[k].attrs = svgContent.node[k].attrs
        /\ IF k = svgContent.root /\ ~HasDefs(svgContent)
           THEN GainedDefs(k)
           ELSE spliceOut.node[k].kids = svgContent.node[k].kids

C1_Witness ==
  /\ pc = "returned"
  /\ ~HasDefs(svgContent)
  /\ NodeId(svgContent, svgContent.root) \notin TargetIds
  /\ \E k \in 2..svgContent.n : NodeId(svgContent, k) \notin TargetIds
  /\ \E k \in 2..svgContent.n : FragmentsFor(k) > 0

\* C2 as stated: the output has as many elements as the input plus the sum
\* of the lengths of the animations lists, and no input element is deleted,
\* reordered or moved.
C2_ElementCount ==
  pc = "returned" =>
    /\ ElementCount(spliceOut) = ElementCount(svgContent)
         + SumOver(DOMAIN animationElements,
                   [i \in DOMAIN animationElements |-> Len(animationElements[i].animations)])
    /\ StructureKept

\* the elements in the first node that the fragment parser makes of a fragment
ElementsOfFragment(f) ==
  CASE f = FragAnimate -> 1
    [] f = FragTwo -> 2
    [] f = FragSet -> 1
    [] f = FragText -> 0

\* C2 amended: the output has as many elements as the input, plus one for the
\* defs created when the input has none, plus, for each entry whose id
\* resolves, the elements of the first node parsed from each of its fragments
\* (one for a single tag, two for two tags in a row, none for plain text);
\* entries whose id does not resolve add nothing; no input element is
\* deleted, reordered or moved.
C2_ElementCountAmended ==
  pc = "returned" =>
    /\ ElementCount(spliceOut) = ElementCount(svgContent)
         + (IF HasDefs(svgContent) THEN 0 ELSE 1)
         + SumOver({i \in DOMAIN animationElements :
                      TargetOf(svgContent, animationElements[i].elementId) # 0},
                   [i \in DOMAIN animationElements |->
                      SumOver(DOMAIN animationElements[i].animations,
                              [j \in DOMAIN animationElements[i].animations |->
                                 ElementsOfFragment(animationElements[i].animations[j])])])
    /\ StructureKept

C2_Witness ==
  /\ pc = "returned"
  /\ HasDefs(svgContent)
  /\ \E i, j \in DOMAIN animationElements :
       /\ TargetOf(svgContent, animationElements[i].elementId) # 0
       /\ animationElements[i].animations = <<FragTwo>>
       /\ TargetOf(svgContent, animationElements[j].elementId) = 0
       /\ animationElements[j].animations # <<>>

\* C3 as stated: every element that a batch entry's id resolves to has its
\* previous number of children plus the number of fragment strings supplied
\* for it.
C3_Completeness ==
  pc = "returned" =>
    \A k \in 1..svgContent.n :
      EntriesFor(k) # {} =>
        Len(spliceOut.node[k].kids) = Len(svgContent.node[k].kids) + FragmentsFor(k)

\* C3 amended: every element that a batch entry's id resolves to has its
\* previous number of children plus the number of fragment strings supplied
\* for it, and one more when it is the root svg of a document that had no
\* defs element.
C3_CompletenessButDefs ==
  pc = "returned" =>
    \A k \in 1..svgContent.n :
      EntriesFor(k) # {} =>
        Len(spliceOut.node[k].kids) = Len(svgContent.node[k].kids) + FragmentsFor(k)
          + (IF k = svgContent.root /\ ~HasDefs(svgContent) THEN 1 ELSE 0)

C3_Witness ==
  /\ pc = "returned"
  /\ Len(animationElements) = 2
  /\ TargetOf(svgContent, animationElements[1].elementId) = 0
  /\ \E k \in 2..svgContent.n :
       /\ TargetOf(svgContent, animationElements[2].elementId) = k
       /\ FragmentsFor(k) > 0
       /\ Len(spliceOut.node[k].kids) > Len(svgContent.node[k].kids)

\* a fragment that is not the markup of an element: empty, or holding plain text
NotElementMarkup(f) ==
  trim(f) = <<>> \/ \E i \in DOMAIN f : TokKind(f[i]) = "text"

\* C4: a fragment that is not valid element markup makes the whole splice
\* fail with an error, and is never inserted into the document as a raw text
\* node.
C4_MalformedFragmentFails ==
  pc # "call" =>
    /\ (\E i \in DOMAIN animationElements :
          /\ TargetOf(svgContent, animationElements[i].elementId) # 0
          /\ \E j \in DOMAIN animationElements[i].animations :
               NotElementMarkup(animationElements[i].animations[j]))
       => pc = "thrown"
    /\ pc = "returned" =>
         \A k \in 1..spliceOut.n : spliceOut.node[k].tag # "#text"

(***************************************************************************)
(* Properties of the extraction                                            *)
(***************************************************************************)
ExtractionOps == {"previewRoute", "extractSelectedElements", "extractSelectedElementsDebug"}

NoneResolves ==
  \A i \in DOMAIN selectedElements : TargetOf(svgContent, selectedElements[i]) = 0

AllResolve ==
  \A i \in DOMAIN selectedElements : TargetOf(svgContent, selectedElements[i]) # 0

\* C5: when none of the requested ids resolves, extraction fails with an
\* error instead of returning an SVG without shapes, at every extraction
\* entry point.
C5_NoElementsFound ==
  (pc # "call" /\ op \in ExtractionOps /\ NoneResolves) => pc = "thrown"

\* the shapes of the extracted SVG: the children of the translating group of
\* the preview, the children of the root otherwise
TopShapes ==
  LET ks == extractOut.node[extractOut.root].kids IN
  IF op = "previewRoute" THEN extractOut.node[ks[1]].kids ELSE ks

Marker == "data-original-style"

\* the attributes of clone equal those of the original element, except that
\* the style may be the one the element had before it was highlighted and
\* that the marker holding that style may be gone
EqualButHighlight(clone, original) ==
  /\ clone.tag = original.tag
  /\ DOMAIN clone.attrs \subseteq DOMAIN original.attrs
  /\ (DOMAIN original.attrs) \ {"style", Marker} \subseteq DOMAIN clone.attrs
  /\ \A a \in (DOMAIN clone.attrs) \ {"style"} : clone.attrs[a] = original.attrs[a]
  /\ "style" \in DOMAIN clone.attrs =>
       \/ clone.attrs["style"] = original.attrs["style"]
       \/ Marker \in DOMAIN original.attrs /\ clone.attrs["style"] = original.attrs[Marker]

PaintDecl(original, base, prop) ==
  IF prop \in DOMAIN original.attrs /\ ~\E i \in DOMAIN base : base[i].prop = prop
  THEN <<Decl(prop, original.attrs[prop])>> ELSE <<>>

RECURSIVE Joined(_)
Joined(parts) ==
  IF Len(parts) <= 1 THEN parts
  ELSE <<Head(parts), Separator>> \o Joined(Tail(parts))

RebuiltStyle(original) ==
  LET base == IF Marker \in DOMAIN original.attrs THEN original.attrs[Marker]
              ELSE IF "style" \in DOMAIN original.attrs THEN original.attrs["style"]
              ELSE <<>>
  IN Joined(base \o PaintDecl(original, base, "fill") \o PaintDecl(original, base, "stroke"))

ExpectedAttrs(original) ==
  IF op # "extractSelectedElementsDebug" THEN original.attrs
  ELSE LET rest == [a \in (DOMAIN original.attrs) \ {"style"} |-> original.attrs[a]] IN
       IF RebuiltStyle(original) = <<>> THEN rest
       ELSE ("style" :> RebuiltStyle(original)) @@ rest

MaxTokens == 4  \* tokens of a text handed to verifyCompleteSvg
MaxAttrs == 2   \* attributes of a root svg tag

Attr(name, value, quote) == [name |-> name, value |-> value, quote |-> quote]

Token(kind, name, attrs) == [kind |-> kind, name |-> name, attrs |-> attrs]

NameVersion == <<"v", "e", "r", "s", "i", "o", "n">>
NameEncoding == <<"e", "n", "c", "o", "d", "i", "n", "g">>
NameId == <<"i", "d">>
NameX == <<"x">>
NameWidth == <<"w", "i", "d", "t", "h">>
NameStrokeWidth == <<"s", "t", "r", "o", "k", "e", "-", "w", "i", "d", "t", "h">>
NameXlink == <<"x", "m", "l", "n", "s", ":", "x", "l", "i", "n", "k">>

XmlDecl == Token("decl", "xml", <<Attr(NameVersion, "1.0", "\"")>>)
XmlDeclUtf8 ==
  Token("decl", "xml", <<Attr(NameVersion, "1.0", "\""), Attr(NameEncoding, "UTF-8", "\"")>>)
SvgTag(attrs) == Token("open", "svg", attrs)
SvgClose == Token("close", "svg", <<>>)
OpenG == Token("open", "g", <<>>)
CloseG == Token("close", "g", <<>>)
Circle == Token("selfclose", "circle", <<>>)
Comment == Token("comment", "c", <<>>)
Newline == Token("text", "\n", <<>>)

\* whether token t matches a pattern of the file
matches(pattern, t) ==
  CASE pattern = "<\\?xml[^>]*\\?>" -> t.kind = "decl"
    [] pattern = "<svg[^>]*>" -> t.kind \in {"open", "selfclose"} /\ t.name = "svg"
    [] pattern = "<\\/svg>" -> t.kind = "close" /\ t.name = "svg"
    [] pattern = "<[^/][^>]*>" -> t.kind \in {"decl", "open", "selfclose", "comment"}
    [] pattern = "<\\/[^>]+>" -> t.kind = "close"
    [] pattern = "<!--[\\s\\S]*?-->" -> t.kind = "comment"
    [] pattern = "<g[^>]*>" -> t.kind \in {"open", "selfclose"} /\ t.name = "g"
    [] pattern = "<\\/g>" -> t.kind = "close" /\ t.name = "g"
    [] pattern = "\\s+" -> t.kind = "text" /\ t.name \in {"\n", " "}

\* pattern.test(text)
test(text, pattern) == \E i \in DOMAIN text : matches(pattern, text[i])

\* index of the first match of the pattern, 0 when there is none
search(text, pattern) ==
  IF test(text, pattern) THEN Min({i \in DOMAIN text : matches(pattern, text[i])}) ELSE 0

\* (svg.match(/<[^/][^>]*>/g) || []).filter(tag => !tag.endsWith('/>')).length
openCount(text) ==
  Cardinality({i \in DOMAIN text :
                 matches("<[^/][^>]*>", text[i]) /\ text[i].kind # "selfclose"})

\* (svg.match(/<\/[^>]+>/g) || []).length
closeCount(text) == Cardinality({i \in DOMAIN text : matches("<\\/[^>]+>", text[i])})

verifyCompleteSvg(text) ==
  /\ test(text, "<\\?xml[^>]*\\?>")
  /\ test(text, "<svg[^>]*>")
  /\ test(text, "<\\/svg>")
  /\ openCount(text) = closeCount(text)

(***************************************************************************)
(* validateSvgStructure                                                    *)
(***************************************************************************)
\* \w
WordChars ==
  {"a", "b", "c", "d", "e", "f", "g", "h", "i", "j", "k", "l", "m",
   "n", "o", "p", "q", "r", "s", "t", "u", "v", "w", "x", "y", "z",
   "0", "1", "2", "3", "4", "5", "6", "7", "8", "9", "_"}

\* the whole of c matches \w+:?\w+
isAttributeName(c) ==
  /\ Len(c) >= 2
  /\ \/ \A i \in DOMAIN c : c[i] \in WordChars
     \/ \E p \in 2..(Len(c) - 1) :
          /\ c[p] = ":"
          /\ \A i \in DOMAIN c \ {p} : c[i] \in WordChars

\* where /(\w+:?\w+)="([^"]*)"/ starts to match in  name="value" : the
\* leftmost position from which the rest of the name matches \w+:?\w+ ,
\* 0 when the pattern matches nowhere in the attribute
matchStart(a) ==
  LET starts == {s \in DOMAIN a.name : isAttributeName(SubSeq(a.name, s, Len(a.name)))} IN
  IF a.quote = "\"" /\ starts # {} THEN Min(starts) ELSE 0

matchedName(a) == SubSeq(a.name, matchStart(a), Len(a.name))

Entry(key, value) == [key |-> key, value |-> value]

\* obj[key] = value on an object held as its entries in insertion order
assign(obj, key, value) ==
  IF \E i \in DOMAIN obj : obj[i].key = key
  THEN [i \in DOMAIN obj |-> IF obj[i].key = key THEN Entry(key, value) ELSE obj[i]]
  ELSE Append(obj, Entry(key, value))

\* matches.forEach(m => attrs[m[1]] = m[2])
RECURSIVE matchAttributes(_, _)
matchAttributes(attrs, obj) ==
  IF attrs = <<>> THEN obj
  ELSE matchAttributes(Tail(attrs),
         IF matchStart(Head(attrs)) = 0 THEN obj
         ELSE assign(obj, matchedName(Head(attrs)), Head(attrs).value))

\* { ...target, ...source }
RECURSIVE spread(_, _)
spread(target, source) ==
  IF source = <<>> THEN target
  ELSE spread(assign(target, Head(source).key, Head(source).value), Tail(source))

mergedAttrs(originalSvgTag, newSvgTag) ==
  spread(matchAttributes(newSvgTag.attrs, <<>>), matchAttributes(originalSvgTag.attrs, <<>>))

\* '<svg ' + entries.map(([key, value]) => `${key}="${value}"`).join(' ') + '>'
mergedSvgTag(originalSvgTag, newSvgTag) ==
  LET merged == mergedAttrs(originalSvgTag, newSvgTag) IN
  SvgTag([i \in DOMAIN merged |-> Attr(merged[i].key, merged[i].value, "\"")])

\* text.replace(pattern, replacement) for the match at index i, none when i = 0
replaceAt(text, i, replacement) ==
  IF i = 0 THEN text
  ELSE SubSeq(text, 1, i - 1) \o replacement \o SubSeq(text, i + 1, Len(text))

startsWith(text, t) == text # <<>> /\ text[1] = t

endsWith(text, t) == text # <<>> /\ text[Len(text)] = t

prependDeclarationKeeping(text, xmlDeclaration) ==
  IF startsWith(text, xmlDeclaration) THEN text
  ELSE <<xmlDeclaration, Newline>> \o text

prependDeclaration(text, xmlDeclaration) ==
  IF startsWith(text, xmlDeclaration) THEN text
  ELSE <<xmlDeclaration, Newline>> \o replaceAt(text, search(text, "<\\?xml[^>]*\\?>"), <<>>)

withDeclaration(text, original) ==
  IF search(original, "<\\?xml[^>]*\\?>") = 0 THEN text
  ELSE prependDeclaration(text, original[search(original, "<\\?xml[^>]*\\?>")])

ensureClosingTagNever(text) == text

ensureClosingTag(text) ==
  IF endsWith(text, SvgClose) THEN text ELSE Append(text, SvgClose)

OkText(text) == [ok |-> TRUE, text |-> text, error |-> ""]

ThrowText(msg) == [ok |-> FALSE, text |-> <<>>, error |-> msg]

reconcileRootTag(text, original) ==
  IF search(original, "<svg[^>]*>") = 0 \/ search(text, "<svg[^>]*>") = 0
  THEN ThrowText("Invalid SVG: missing svg tag")
  ELSE OkText(ensureClosingTag(
         replaceAt(text, search(text, "<svg[^>]*>"),
                   <<mergedSvgTag(original[search(original, "<svg[^>]*>")],
                                  text[search(text, "<svg[^>]*>")])>>)))

validateSvgStructure(text, original) ==
  reconcileRootTag(withDeclaration(text, original), original)


(***************************************************************************)
(* verifyCompleteSvg applied to the texts of at most MaxTokens tokens      *)
(***************************************************************************)
VerifyTokens == {XmlDecl, SvgTag(<<>>), SvgClose, OpenG, CloseG, Circle, Comment, Newline}

VerifyTexts == SeqsUpTo(VerifyTokens, MaxTokens)

SpliceIdle ==
  /\ svgContent = EmptyDoc
  /\ animationElements = <<>>
  /\ spliceOut = EmptyDoc
  /\ spliceErr = ""

ExtractIdle ==
  /\ selectedElements = <<>>
  /\ extractOut = EmptyDoc
  /\ extractErr = ""

InitVerify ==
  /\ PageIdle
  /\ MemIdle
  /\ pc = "call"
  /\ op = ""
  /\ generatedSvg \in VerifyTexts
  /\ originalText = <<>>
  /\ textOut = <<>>
  /\ complete = FALSE
  /\ textErr = ""
  /\ SpliceIdle
  /\ ExtractIdle
  /\ GenIdle
  /\ RoutesIdle
  /\ boxes = NoBoxes

VerifyCompleteSvg ==
  /\ pc = "call"
  /\ pc' = "returned"
  /\ op' = "verifyCompleteSvg"
  /\ complete' = verifyCompleteSvg(generatedSvg)
  /\ UNCHANGED <<generatedSvg, originalText, textOut, textErr>>
  /\ UNCHANGED <<svgContent, spliceVars, extractVars, genVars, routeVars, boxes, pageVars, memVars>>

NextVerify == VerifyCompleteSvg

SpecVerify == InitVerify /\ [][NextVerify]_vars

(***************************************************************************)
(* validateSvgStructure applied to a candidate and an original text        *)
(***************************************************************************)
OriginalPool ==
  {Attr(NameId, "r", "\""), Attr(NameX, "0", "\""),
   Attr(NameStrokeWidth, "2", "\""), Attr(NameWidth, "100", "\"")}

CandidatePool ==
  {Attr(NameId, "n", "\""), Attr(NameXlink, "u", "\""), Attr(NameWidth, "50", "'")}

\* attribute lists of a tag: no name twice
AttrLists(pool) ==
  {a \in SeqsUpTo(pool, MaxAttrs) :
     \A i, j \in DOMAIN a : a[i].name = a[j].name => i = j}

CandidateLeads ==
  {<<>>, <<XmlDecl>>, <<XmlDeclUtf8>>, <<Newline, XmlDecl>>, <<XmlDeclUtf8, XmlDecl>>}

CandidateRoots == {<<>>} \cup {<<SvgTag(a)>> : a \in AttrLists(CandidatePool)}

CandidateBodies == {<<>>, <<Circle>>}

CandidateEnds == {<<>>, <<SvgClose>>, <<SvgClose, Newline>>}

Candidates ==
  {l \o r \o b \o e :
     l \in CandidateLeads, r \in CandidateRoots, b \in CandidateBodies, e \in CandidateEnds}

OriginalRoots == {<<>>} \cup {<<SvgTag(a)>> : a \in AttrLists(OriginalPool)}

Originals ==
  {l \o r \o <<Circle, SvgClose>> : l \in {<<>>, <<XmlDecl>>}, r \in OriginalRoots}

InitValidate ==
  /\ PageIdle
  /\ MemIdle
  /\ pc = "call"
  /\ op = ""
  /\ generatedSvg \in Candidates
  /\ originalText \in Originals
  /\ textOut = <<>>
  /\ complete = FALSE
  /\ textErr = ""
  /\ SpliceIdle
  /\ ExtractIdle
  /\ GenIdle
  /\ RoutesIdle
  /\ boxes = NoBoxes

ValidateSvgStructure ==
  /\ pc = "call"
  /\ LET r == validateSvgStructure(generatedSvg, originalText) IN
       /\ pc' = IF r.ok THEN "returned" ELSE "thrown"
       /\ textOut' = r.text
       /\ textErr' = r.error
  /\ op' = "validateSvgStructure"
  /\ UNCHANGED <<generatedSvg, originalText, complete>>
  /\ UNCHANGED <<svgContent, spliceVars, extractVars, genVars, routeVars, boxes, pageVars, memVars>>

NextValidate == ValidateSvgStructure

SpecValidate == InitValidate /\ [][NextValidate]_vars

(***************************************************************************)
(* Properties of verifyCompleteSvg and validateSvgStructure                *)
(***************************************************************************)
HasOpeningSvgTag(text) ==
  \E i \in DOMAIN text : text[i].name = "svg" /\ text[i].kind \in {"open", "selfclose"}

HasClosingSvgTag(text) == \E i \in DOMAIN text : text[i] = SvgClose

OpeningElementTags(text) == {i \in DOMAIN text : text[i].kind = "open"}

ClosingTags(text) == {i \in DOMAIN text : text[i].kind = "close"}

\* C7: verifyCompleteSvg(text) is true exactly when the text holds an XML
\* declaration, an opening svg tag and a closing </svg> tag, and has as many
\* opening element tags that are not self-closing as closing tags.
C7_VerifyComplete ==
  (op = "verifyCompleteSvg" /\ pc = "returned") =>
    (complete <=>
       /\ \E i \in DOMAIN generatedSvg : generatedSvg[i].kind = "decl"
       /\ HasOpeningSvgTag(generatedSvg)
       /\ HasClosingSvgTag(generatedSvg)
       /\ Cardinality(OpeningElementTags(generatedSvg)) = Cardinality(ClosingTags(generatedSvg)))

RootTag(text) ==
  text[Min({i \in DOMAIN text : text[i].name = "svg" /\ text[i].kind \in {"open", "selfclose"}})]

Names(tag) == {tag.attrs[i].name : i \in DOMAIN tag.attrs}

ValueOf(tag, name) == (CHOOSE a \in Range(tag.attrs) : a.name = name).value

\* C8: the root tag written by validateSvgStructure carries every attribute
\* name of the original's or the candidate's root tag, with the original's
\* value when the original has the name and the candidate's value otherwise,
\* and carries no other name (nothing is dropped or renamed).
C8_RootAttributes ==
  (op = "validateSvgStructure" /\ pc = "returned") =>
    LET out == RootTag(textOut)
        original == RootTag(originalText)
        candidate == RootTag(generatedSvg)
    IN /\ Names(out) = Names(original) \cup Names(candidate)
       /\ \A name \in Names(out) :
            ValueOf(out, name) = IF name \in Names(original)
                                 THEN ValueOf(original, name)
                                 ELSE ValueOf(candidate, name)

Validated == op = "validateSvgStructure" /\ pc \in {"returned", "thrown"}

\* C9: validateSvgStructure fails with an error whenever the candidate has no
\* opening svg tag or no closing </svg> tag.
C9_FailsWithoutTags ==
  (/\ Validated
   /\ \/ ~HasOpeningSvgTag(generatedSvg)
      \/ ~HasClosingSvgTag(generatedSvg)) => pc = "thrown"

\* C9 amended: validateSvgStructure fails, with "Invalid SVG: missing svg
\* tag" and without a text, exactly when the candidate or the original has no
\* opening svg tag; otherwise it returns a text that ends with </svg>, and
\* for a candidate without any closing </svg> tag that text holds exactly one
\* </svg>, the appended one.
C9_FailsWithoutOpeningTag ==
  Validated =>
    /\ pc = "thrown" <=> (~HasOpeningSvgTag(generatedSvg) \/ ~HasOpeningSvgTag(originalText))
    /\ pc = "thrown" => (textOut = <<>> /\ textErr = "Invalid SVG: missing svg tag")
    /\ pc = "returned" =>
         /\ textErr = ""
         /\ textOut[Len(textOut)] = SvgClose
         /\ ~HasClosingSvgTag(generatedSvg) =>
              {i \in DOMAIN textOut : textOut[i] = SvgClose} = {Len(textOut)}

C9_Witness ==
  /\ Validated
  /\ pc = "returned"
  /\ HasOpeningSvgTag(generatedSvg)
  /\ ~HasClosingSvgTag(generatedSvg)
  /\ textOut[Len(textOut)] = SvgClose


(***************************************************************************)
(* generateAnimation (server/services/openai.ts)                           *)
(*                                                                         *)
(* The chat completion is an input: content "none" is an empty content,    *)
(* "text" a content that is not JSON, "object" a JSON object without an    *)
(* animations array, "payload" a JSON object with animations, parameters   *)
(* (a partial map) and explanation.  selectedElements, description,        *)
(* parameters and conversation of the request only shape the prompt.       *)
(***************************************************************************)
Completion(content, animations, parameters, explanation) ==
  [content |-> content, animations |-> animations,
   parameters |-> parameters, explanation |-> explanation]

\* value || fallback, for a number and for a string
numberOrFallback(p, name, fallback) == fallback

numberOr(p, name, fallback) ==
  IF name \in DOMAIN p /\ p[name] # 0 THEN p[name] ELSE fallback

stringOr(p, name, fallback) ==
  IF name \in DOMAIN p /\ p[name] # "" THEN p[name] ELSE fallback

suggestedParams(p) ==
  [duration |-> numberOr(p, "duration", 1),
   easing |-> stringOr(p, "easing", "ease"),
   repeat |-> numberOr(p, "repeat", 0),
   direction |-> stringOr(p, "direction", "normal")]

\* result.animations.filter(a => referenceElements.includes(a.elementId)).length > 0
attemptedReferenceAnimationsNone(reference, animations) == FALSE

attemptedReferenceAnimations(reference, animations) ==
  /\ reference # <<>>
  /\ \E i \in DOMAIN animations : animations[i].elementId \in Range(reference)

Generated(d, c) ==
  [ok |-> TRUE,
   response |-> [animatedSvg |-> d,
                 suggestedParams |-> suggestedParams(c.parameters),
                 explanation |-> c.explanation],
   error |-> ""]

\* catch (error) { throw new Error(`Failed to generate animation: ${errorMessage}`) }
GenerationFailed(msg) ==
  [ok |-> FALSE, response |-> NoResponse, error |-> "Failed to generate animation: " \o msg]

spliceResult(r, c) == IF r.ok THEN Generated(r.doc, c) ELSE GenerationFailed(r.error)

generateAnimation(d, reference, c) ==
  CASE c.content = "none" -> GenerationFailed("No content received from OpenAI")
    [] c.content = "text" -> GenerationFailed("SyntaxError")
    [] c.content = "object" ->
         IF reference = <<>> /\ querySelector(d, "svg") = 0
         THEN GenerationFailed("Invalid SVG: no svg element found")
         ELSE GenerationFailed("TypeError")
    [] OTHER ->
         IF attemptedReferenceAnimations(reference, c.animations)
         THEN GenerationFailed("Animation attempt on reference elements detected")
         ELSE spliceResult(insertAnimations(d, c.animations), c)

(***************************************************************************)
(* Specification of the generation                                         *)
(***************************************************************************)
NoParameters == [name \in {} |-> 0]

FullParameters == [duration |-> 2, easing |-> "linear", repeat |-> 0, direction |-> "reverse"]

\* a payload whose duration and easing are falsy and that has no direction
FalsyParameters == [duration |-> 0, easing |-> "", repeat |-> 3]

ParameterMaps == {NoParameters, FullParameters, FalsyParameters}

Completions ==
  {NoCompletion,
   Completion("text", <<>>, NoParameters, ""),
   Completion("object", <<>>, NoParameters, "bounce")}
  \cup {Completion("payload", b, p, "bounce") : b \in Batches, p \in ParameterMaps}

ReferenceLists == {<<>>, <<"a">>, <<"r">>}

InitGenerate ==
  /\ PageIdle
  /\ MemIdle
  /\ pc = "call"
  /\ op = ""
  /\ referenceElements \in ReferenceLists
  /\ selectedElements = <<"a">>
  /\ completion \in Completions
  /\ svgContent \in Docs
  /\ response = NoResponse
  /\ genErr = ""
  /\ animationElements = <<>>
  /\ spliceOut = EmptyDoc
  /\ spliceErr = ""
  /\ extractOut = EmptyDoc
  /\ extractErr = ""
  /\ TextIdle
  /\ RoutesIdle
  /\ boxes = NoBoxes

GenerateAnimation ==
  /\ pc = "call"
  /\ LET r == generateAnimation(svgContent, referenceElements, completion) IN
       /\ pc' = IF r.ok THEN "returned" ELSE "thrown"
       /\ response' = r.response
       /\ genErr' = r.error
  /\ op' = "generateAnimation"
  /\ UNCHANGED <<svgContent, referenceElements, completion>>
  /\ UNCHANGED <<spliceVars, extractVars, textVars, routeVars, boxes, pageVars, memVars>>

NextGenerate == GenerateAnimation

SpecGenerate == InitGenerate /\ [][NextGenerate]_vars

(***************************************************************************)
(* Properties of the generation                                            *)
(***************************************************************************)
\* the payload names the id of a reference element
NamesReference ==
  /\ completion.content = "payload"
  /\ \E i \in DOMAIN completion.animations :
       completion.animations[i].elementId \in Range(referenceElements)

\* element k of the input has in the animated SVG the children it had, and
\* at most a new empty defs besides them
ReceivedNoFragment(k) ==
  LET out == response.animatedSvg IN
  /\ KeepUpTo(out.node[k].kids, svgContent.n) = svgContent.node[k].kids
  /\ \A j \in Range(out.node[k].kids) :
       j > svgContent.n => out.node[j] = NewNode("defs", NoAttrs, 0)

\* C10: no element whose id is in referenceElements has received an animation
\* fragment in the animated SVG that generateAnimation returns, and when the
\* payload names a reference element id the generation fails with an error
\* and returns no animated SVG.
C10_ReferencesNeverAnimated ==
  op = "generateAnimation" =>
    /\ pc = "returned" =>
         \A k \in 1..svgContent.n :
           NodeId(svgContent, k) \in Range(referenceElements) => ReceivedNoFragment(k)
    /\ NamesReference =>
         /\ pc = "thrown"
         /\ response = NoResponse
         /\ genErr = "Failed to generate animation: Animation attempt on reference elements detected"

C10_Witness ==
  /\ op = "generateAnimation"
  /\ pc = "thrown"
  /\ response = NoResponse
  /\ \E i \in DOMAIN completion.animations :
       /\ completion.animations[i].elementId \in Range(referenceElements)
       /\ completion.animations[i].animations = <<FragAnimate>>
       /\ TargetOf(svgContent, completion.animations[i].elementId) # 0


\* element k of the input has in the animated SVG a new child that is not
\* the defs insertAnimations creates
GainedAnimation(k) ==
  LET out == response.animatedSvg IN
  \E j \in Range(out.node[k].kids) :
    j > svgContent.n /\ IsElement(out.node[j]) /\ out.node[j].tag # "defs"

\* C11: in the SVG generateAnimation returns, every element that gained an
\* animation child has its id in the request's selectedElements, whatever
\* ids the payload names.
C11_SelectedOnly ==
  (op = "generateAnimation" /\ pc = "returned") =>
    \A k \in 1..svgContent.n :
      GainedAnimation(k) => NodeId(svgContent, k) \in Range(selectedElements)


(***************************************************************************)
(* The create and update routes (router.post('/'), router.patch('/:id'))   *)
(*                                                                         *)
(* A handler runs up to its await generateAnimation(...), and resumes when *)
(* the chat completion arrives; other requests run in between.  A row of   *)
(* the animations table is a record, its id is its index in db.  The       *)
(* timestamps of the rows and messages are left out.                       *)
(***************************************************************************)
MaxRequests == 3  \* requests the server receives

Message(role, content) == [role |-> role, content |-> content]

NoRow ==
  [originalSvg |-> EmptyDoc, description |-> "", selectedElements |-> <<>>,
   animatedSvg |-> EmptyDoc, parameters |-> NoParameters, conversation |-> <<>>]

\* req.body of a create request; insertAnimationSchema.parse keeps
\* originalSvg, description, selectedElements and parameters only
Body(valid, d, description, selected, reference) ==
  [valid |-> valid, originalSvg |-> d, description |-> description,
   selectedElements |-> selected, referenceElements |-> reference]

NoBody == Body(FALSE, EmptyDoc, "", <<>>, <<>>)

Request(route, phase, body, id, existing, status, error) ==
  [route |-> route, phase |-> phase, body |-> body, id |-> id,
   existing |-> existing, completion |-> NoCompletion, status |-> status, error |-> error]

NoRequest == Request("", "idle", NoBody, 0, NoRow, 0, "")

\* res.status(status).json({ error })
answer(request, c, status, error) ==
  [request EXCEPT !.phase = "answered", !.completion = c, !.status = status, !.error = error]

\* db.insert(animations).values({...parsedBody, animatedSvg, parameters, conversation})
insertedAlways(rows, body, r) ==
  Append(rows,
    [originalSvg |-> body.originalSvg, description |-> body.description,
     selectedElements |-> body.selectedElements,
     animatedSvg |-> r.response.animatedSvg,
     parameters |-> r.response.suggestedParams,
     conversation |-> <<Message("user", body.description),
                        Message("assistant", r.response.explanation)>>])

inserted(rows, body, r) ==
  IF r.ok
  THEN Append(rows,
         [originalSvg |-> body.originalSvg, description |-> body.description,
          selectedElements |-> body.selectedElements,
          animatedSvg |-> r.response.animatedSvg,
          parameters |-> r.response.suggestedParams,
          conversation |-> <<Message("user", body.description),
                             Message("assistant", r.response.explanation)>>])
  ELSE rows

\* db.update(animations).set({animatedSvg, parameters, conversation}).where(eq(animations.id, id))
updated(rows, id, existing, description, r) ==
  IF r.ok /\ id \in DOMAIN rows
  THEN [rows EXCEPT ![id] =
          [@ EXCEPT !.animatedSvg = r.response.animatedSvg,
                    !.parameters = r.response.suggestedParams,
                    !.conversation = existing.conversation \o
                       <<Message("user", description),
                         Message("assistant", r.response.explanation)>>]]
  ELSE rows

\* the request the create route hands to generateAnimation: parsedBody has no
\* referenceElements, so parsedBody.referenceElements || [] is []
createGeneration(body, c) == generateAnimation(body.originalSvg, <<>>, c)

\* the request the update route hands to generateAnimation: a row has no
\* referenceElements column
updateGeneration(existing, c) == generateAnimation(existing.originalSvg, <<>>, c)

\* router.post('/') up to await generateAnimation(...)
CreateReceive(q, body) ==
  /\ inflight[q].phase = "idle"
  /\ inflight' = [inflight EXCEPT ![q] =
       IF body.valid
       THEN Request("create", "awaiting", body, 0, NoRow, 0, "")
       ELSE Request("create", "answered", body, 0, NoRow, 400, "ZodError")]
  /\ UNCHANGED db

\* router.post('/') from the completion to the answer
CreateResume(q, c) ==
  /\ inflight[q].route = "create"
  /\ inflight[q].phase = "awaiting"
  /\ LET r == createGeneration(inflight[q].body, c) IN
       /\ db' = inserted(db, inflight[q].body, r)
       /\ inflight' = [inflight EXCEPT ![q] =
            IF r.ok THEN answer([@ EXCEPT !.id = Len(db) + 1], c, 200, "")
            ELSE answer(@, c, 400, r.error)]

\* router.patch('/:id') up to await generateAnimation(...)
UpdateReceive(q, id, description) ==
  /\ inflight[q].phase = "idle"
  /\ inflight' = [inflight EXCEPT ![q] =
       IF id \in DOMAIN db
       THEN Request("update", "awaiting", Body(TRUE, EmptyDoc, description, <<>>, <<>>),
                    id, db[id], 0, "")
       ELSE Request("update", "answered", Body(TRUE, EmptyDoc, description, <<>>, <<>>),
                    id, NoRow, 404, "Animation not found")]
  /\ UNCHANGED db

\* router.patch('/:id') from the completion to the answer
UpdateResume(q, c) ==
  /\ inflight[q].route = "update"
  /\ inflight[q].phase = "awaiting"
  /\ LET r == updateGeneration(inflight[q].existing, c) IN
       /\ db' = updated(db, inflight[q].id, inflight[q].existing,
                        inflight[q].body.description, r)
       /\ inflight' = [inflight EXCEPT ![q] =
            IF r.ok THEN answer(@, c, 200, "") ELSE answer(@, c, 400, r.error)]


(***************************************************************************)
(* Specification of the routes                                             *)
(***************************************************************************)
\* <svg id="r"><g id="a"/></svg>
RouteDoc == MakeDoc(FALSE, 2, [i \in 2..2 |-> 1], [i \in 2..2 |-> "g"], [i \in 1..2 |-> IF i = 1 THEN "r" ELSE "a"])

CreateBodies ==
  {NoBody} \cup {Body(TRUE, RouteDoc, "spin", <<"a">>, reference) : reference \in {<<>>, <<"r">>}}

RouteCompletions ==
  {NoCompletion,
   Completion("text", <<>>, NoParameters, ""),
   Completion("payload", <<[elementId |-> "a", animations |-> <<FragBlank>>]>>, FullParameters, "bounce"),
   Completion("payload", <<[elementId |-> "a", animations |-> <<FragAnimate>>]>>, FullParameters, "bounce")}

UpdateDescriptions == {"fade", "grow"}

InitRoutes ==
  /\ PageIdle
  /\ MemIdle
  /\ pc = "call"
  /\ op = ""
  /\ db = <<>>
  /\ inflight = [q \in 1..MaxRequests |-> NoRequest]
  /\ svgContent = EmptyDoc
  /\ animationElements = <<>>
  /\ spliceOut = EmptyDoc
  /\ spliceErr = ""
  /\ selectedElements = <<>>
  /\ extractOut = EmptyDoc
  /\ extractErr = ""
  /\ TextIdle
  /\ GenIdle
  /\ boxes = NoBoxes

RouteFrame == UNCHANGED <<pc, op, svgContent, spliceVars, extractVars, textVars, genVars, boxes, pageVars, memVars>>

NextRoutes ==
  \E q \in 1..MaxRequests :
    \/ \E body \in CreateBodies : CreateReceive(q, body) /\ RouteFrame
    \/ \E c \in RouteCompletions : CreateResume(q, c) /\ RouteFrame
    \/ \E id \in 1..MaxRequests, description \in UpdateDescriptions :
         UpdateReceive(q, id, description) /\ RouteFrame
    \/ \E c \in RouteCompletions : UpdateResume(q, c) /\ RouteFrame

SpecRoutes == InitRoutes /\ [][NextRoutes]_vars

(***************************************************************************)
(* Properties of the routes                                                *)
(***************************************************************************)
\* request q resumes in this step with a completion on which generateAnimation throws
GenerationThrows(q) ==
  /\ inflight[q].phase = "awaiting"
  /\ inflight'[q].phase = "answered"
  /\ ~generateAnimation(IF inflight[q].route = "create"
                        THEN inflight[q].body.originalSvg
                        ELSE inflight[q].existing.originalSvg,
                        <<>>, inflight'[q].completion).ok

\* C12: when generateAnimation throws, the create route answers with an error
\* and inserts no row, and the update route answers with an error and leaves
\* the stored rows, with their animatedSvg, parameters and conversation, as
\* they were.
C12_FailurePersistsNothing ==
  [][\A q \in 1..MaxRequests :
       GenerationThrows(q) =>
         /\ inflight'[q].status = 400
         /\ inflight'[q].error # ""
         /\ db' = db]_vars

C12_Witness ==
  \E q \in 1..MaxRequests :
    /\ inflight[q].route = "update"
    /\ inflight[q].phase = "answered"
    /\ inflight[q].status = 400
    /\ inflight[q].completion = Completion("text", <<>>, NoParameters, "")
    /\ db[inflight[q].id] = inflight[q].existing


(***************************************************************************)
(* calculateElementBounds and calculateGroupBounds applied to the elements *)
(* of a document and to every group of them                                *)
(***************************************************************************)
BoundsShapes ==
  {[tag |-> "circle", attrs |-> NoAttrs],
   [tag |-> "circle", attrs |-> [cx |-> "50", cy |-> "50", r |-> "10"]],
   [tag |-> "circle", attrs |-> [cx |-> "50", cy |-> "50", r |-> "-10"]],
   [tag |-> "rect", attrs |-> NoAttrs],
   [tag |-> "rect", attrs |-> [x |-> "0", y |-> "0", width |-> "10", height |-> "20"]],
   [tag |-> "rect", attrs |-> [x |-> "20", y |-> "20", width |-> "-10", height |-> "10"]],
   [tag |-> "path", attrs |-> NoAttrs],
   [tag |-> "path", attrs |-> [d |-> <<"M", "10", "20", "L", "30", "40">>]],
   [tag |-> "path", attrs |-> [d |-> <<"H", "10">>]],
   [tag |-> "g", attrs |-> NoAttrs],
   [tag |-> "line", attrs |-> [x1 |-> "10", y1 |-> "20", x2 |-> "30", y2 |-> "40"]],
   [tag |-> "text", attrs |-> [x |-> "abc", y |-> "5"]]}

\* the documents whose root holds at most MaxShapes of these elements
BoundsDocs ==
  UNION {{MakeShapeDoc(n, [i \in 2..n |-> 1], shapes, [i \in 2..n |-> ""]) :
            shapes \in [2..n -> BoundsShapes]}
         : n \in 1..(MaxShapes + 1)}

InitBounds ==
  /\ PageIdle
  /\ MemIdle
  /\ pc = "call"
  /\ op = ""
  /\ svgContent \in BoundsDocs
  /\ boxes = NoBoxes
  /\ animationElements = <<>>
  /\ spliceOut = EmptyDoc
  /\ spliceErr = ""
  /\ ExtractIdle
  /\ TextIdle
  /\ GenIdle
  /\ RoutesIdle

CalculateBounds ==
  /\ pc = "call"
  /\ pc' = "returned"
  /\ op' = "calculateBounds"
  /\ boxes' =
       [element |-> [k \in 2..svgContent.n |-> calculateElementBounds(svgContent.node[k])],
        group |-> [A \in SUBSET (2..svgContent.n) |->
                     calculateGroupBounds(svgContent, SortedSeq(A))]]
  /\ UNCHANGED <<svgContent, spliceVars, extractVars, textVars, genVars, routeVars, pageVars, memVars>>

NextBounds == CalculateBounds

SpecBounds == InitBounds /\ [][NextBounds]_vars

(***************************************************************************)
(* Properties of the bounds                                                *)
(***************************************************************************)
Calculated == op = "calculateBounds" /\ pc = "returned"

\* the attributes that hold geometry
GeometryNames ==
  {"x", "y", "x1", "y1", "x2", "y2", "cx", "cy", "r", "width", "height", "d"}

\* no geometry attribute of the element holds a number
NoNumericGeometry(nd) ==
  \A name \in GeometryNames \cap DOMAIN nd.attrs :
    IF name = "d" THEN \A i \in DOMAIN nd.attrs[name] : nd.attrs[name][i] \notin DOMAIN NumeralValue
    ELSE nd.attrs[name] \notin DOMAIN NumeralValue

FiniteBox(b) == b.minX.k = "num" /\ b.minY.k = "num" /\ b.maxX.k = "num" /\ b.maxY.k = "num"

\* C13: an element of any kind without a numeric geometry attribute gets
\* exactly the default box (0,0,100,100), and no element gets a box with a
\* NaN or infinite coordinate.
C13_DegenerateDefault ==
  Calculated =>
    \A k \in 2..svgContent.n :
      /\ NoNumericGeometry(svgContent.node[k]) =>
           boxes.element[k] = Box(Num(0), Num(0), Num(1000), Num(1000))
      /\ FiniteBox(boxes.element[k])

Ordered(b) == b.minX.v <= b.maxX.v /\ b.minY.v <= b.maxY.v

\* C14: every box of an element or of a group has minX <= maxX and
\* minY <= maxY, negative radius, width or height included.
C14_BoxOrdered ==
  Calculated =>
    /\ \A k \in 2..svgContent.n : Ordered(boxes.element[k])
    /\ \A A \in SUBSET (2..svgContent.n) : Ordered(boxes.group[A])

Contains(outer, inner) ==
  /\ outer.minX.v <= inner.minX.v
  /\ outer.minY.v <= inner.minY.v
  /\ outer.maxX.v >= inner.maxX.v
  /\ outer.maxY.v >= inner.maxY.v

\* C15: for element sets A and B with A a subset of B, A possibly empty, the
\* group box of B contains the group box of A.
C15_Monotone ==
  Calculated =>
    \A B \in SUBSET (2..svgContent.n) : \A A \in SUBSET B :
      Contains(boxes.group[B], boxes.group[A])

\* C15 amended: for element sets A and B with A non-empty and a subset of B,
\* the group box of B contains the group box of A; the box of the empty
\* group is the default box (0,0,100,100), which a non-empty group need not
\* contain.
C15_MonotoneNonEmpty ==
  Calculated =>
    /\ boxes.group[{}] = Box(Num(0), Num(0), Num(1000), Num(1000))
    /\ \A B \in SUBSET (2..svgContent.n) : \A A \in (SUBSET B) \ {{}} :
         Contains(boxes.group[B], boxes.group[A])

C15_Witness ==
  /\ Calculated
  /\ \E B \in SUBSET (2..svgContent.n) : \E A \in (SUBSET B) \ {{}} :
       /\ A # B
       /\ boxes.group[A] # boxes.group[B]
       /\ Contains(boxes.group[B], boxes.group[A])
       /\ ~Contains(boxes.group[B], boxes.group[{}])


(***************************************************************************)
(* Properties of the preview window                                        *)
(***************************************************************************)
\* the group bounds of the selection, in tenths
SelectionBounds ==
  LET b == calculateGroupBounds(svgContent, resolveAll(svgContent, selectedElements)) IN
  [minX |-> b.minX.v, minY |-> b.minY.v, maxX |-> b.maxX.v, maxY |-> b.maxY.v]

Larger(a, b) == IF a >= b THEN a ELSE b

SelectionWidth == SelectionBounds.maxX - SelectionBounds.minX
SelectionHeight == SelectionBounds.maxY - SelectionBounds.minY
SelectionPadding == Larger(SelectionWidth, SelectionHeight) \div 10

Previewed == op = "previewRoute" /\ pc = "returned"

PreviewViewBox == extractOut.node[extractOut.root].attrs["viewBox"]

RECURSIVE WithoutDuplicates(_, _)
WithoutDuplicates(ids, seen) ==
  IF ids = <<>> THEN <<>>
  ELSE IF Head(ids) \in seen THEN WithoutDuplicates(Tail(ids), seen)
  ELSE <<Head(ids)>> \o WithoutDuplicates(Tail(ids), seen \cup {Head(ids)})

\* what the operation that ran yields for a list of ids
ExtractionOf(ids) ==
  CASE op = "previewRoute" -> previewRoute(svgContent, ids)
    [] op = "extractSelectedElements" -> extractSelectedElements(svgContent, ids)
    [] OTHER -> extractSelectedElementsDebug(svgContent, ids)

\* C17: extraction yields for any id list the preview it yields for the list
\* with its later duplicates removed.
C17_DuplicatesAreNoOps ==
  (op \in ExtractionOps /\ pc = "returned") =>
    extractOut = ExtractionOf(WithoutDuplicates(selectedElements, {})).doc


\* C18: after every successful insertAnimations the root svg element has a
\* defs element as its first child, whether or not the input held a defs.
C18_DefsFirstChild ==
  (op = "insertAnimations" /\ pc = "returned") =>
    LET ks == spliceOut.node[spliceOut.root].kids IN
    /\ ks # <<>>
    /\ spliceOut.node[Head(ks)].tag = "defs"

\* C19: insertAnimations returns the whole input document: every node of the
\* input is in the returned text, and so is the XML declaration that
\* precedes the root svg element.
C19_WholeDocument ==
  (op = "insertAnimations" /\ pc = "returned") =>
    /\ \A k \in 1..svgContent.n :
         /\ \E i \in DOMAIN DocOrder(spliceOut) : DocOrder(spliceOut)[i] = k
         /\ spliceOut.node[k].tag = svgContent.node[k].tag
    /\ svgContent.decl => spliceOut.decl

\* the entries of a batch whose elementId resolves in the document
RECURSIVE resolvingEntries(_, _)
resolvingEntries(d, entries) ==
  IF entries = <<>> THEN <<>>
  ELSE IF TargetOf(d, Head(entries).elementId) = 0
       THEN resolvingEntries(d, Tail(entries))
       ELSE <<Head(entries)>> \o resolvingEntries(d, Tail(entries))

\* C20: a batch entry whose elementId does not resolve is skipped without an
\* error and every other entry is still applied: the splice ends as it ends
\* for the batch without the entries that do not resolve, with the same
\* document or the same error.
C20_UnresolvedSkipped ==
  (op = "insertAnimations" /\ pc # "call") =>
    LET r == insertAnimations(svgContent, resolvingEntries(svgContent, animationElements)) IN
    /\ (pc = "returned") = r.ok
    /\ spliceOut = r.doc
    /\ spliceErr = r.error

C20_Witness ==
  /\ op = "insertAnimations"
  /\ pc = "returned"
  /\ \E i, j \in DOMAIN animationElements :
       /\ i < j
       /\ TargetOf(svgContent, animationElements[i].elementId) = 0
       /\ animationElements[i].animations = <<FragAnimate>>
       /\ TargetOf(svgContent, animationElements[j].elementId) # 0
       /\ animationElements[j].animations = <<FragAnimate>>
       /\ LET k == TargetOf(svgContent, animationElements[j].elementId) IN
            /\ Len(spliceOut.node[k].kids) > Len(svgContent.node[k].kids)
            /\ spliceOut.node[spliceOut.node[k].kids[Len(spliceOut.node[k].kids)]].tag = "animate"


\* the input elements that the ids of a list stand for, in list order, the
\* ids that stand for none left out
RECURSIVE ResolvedTargets(_)
ResolvedTargets(ids) ==
  IF ids = <<>> THEN <<>>
  ELSE IF TargetOf(svgContent, Head(ids)) = 0 THEN ResolvedTargets(Tail(ids))
  ELSE <<TargetOf(svgContent, Head(ids))>> \o ResolvedTargets(Tail(ids))

\* C21: when at least one requested id resolves, extraction succeeds, the
\* ids that do not resolve are skipped, and the preview holds clones of
\* exactly the elements whose ids resolved.
C21_PartialSelection ==
  (pc # "call" /\ op \in ExtractionOps /\ ~NoneResolves) =>
    /\ pc = "returned"
    /\ Len(TopShapes) = Len(ResolvedTargets(selectedElements))
    /\ \A i \in DOMAIN TopShapes :
         LET clone == TopShapes[i]
             original == ResolvedTargets(selectedElements)[i]
         IN /\ extractOut.node[clone].tag = svgContent.node[original].tag
            /\ NodeId(extractOut, clone) = NodeId(svgContent, original)
            /\ Len(extractOut.node[clone].kids) = Len(svgContent.node[original].kids)

C21_Witness ==
  /\ pc = "returned"
  /\ op = "previewRoute"
  /\ Len(selectedElements) = 2
  /\ TargetOf(svgContent, selectedElements[1]) = 0
  /\ TargetOf(svgContent, selectedElements[2]) # 0
  /\ Len(TopShapes) = 1
  /\ NodeId(extractOut, TopShapes[1]) = selectedElements[2]


\* the XML declarations of a text, in text order
RECURSIVE Declarations(_)
Declarations(text) ==
  IF text = <<>> THEN <<>>
  ELSE IF Head(text).kind = "decl" THEN <<Head(text)>> \o Declarations(Tail(text))
  ELSE Declarations(Tail(text))

\* the candidate has no XML declaration, or one that is not the original's
LacksOriginalDeclaration ==
  /\ Declarations(originalText) # <<>>
  /\ \/ Declarations(generatedSvg) = <<>>
     \/ Head(Declarations(generatedSvg)) # Head(Declarations(originalText))

\* C22 as stated: when the original has an XML declaration and the candidate
\* lacks one or has a different one, the text that validateSvgStructure
\* returns starts with the original's declaration and holds no other XML
\* declaration.
C22_OriginalDeclaration ==
  (Validated /\ pc = "returned" /\ LacksOriginalDeclaration) =>
    /\ textOut[1] = Head(Declarations(originalText))
    /\ Declarations(textOut) = <<Head(Declarations(originalText))>>

\* C22 amended: when the original has an XML declaration and the candidate
\* lacks one or has a different one, the returned text starts with the
\* original's declaration and a line break, and its other XML declarations
\* are those of the candidate after the candidate's first; so it holds no
\* other declaration when the candidate has at most one.
C22_FirstDeclarationReplaced ==
  (Validated /\ pc = "returned" /\ LacksOriginalDeclaration) =>
    /\ textOut[1] = Head(Declarations(originalText))
    /\ textOut[2] = Newline
    /\ Declarations(textOut) =
         <<Head(Declarations(originalText))>> \o
           (IF Declarations(generatedSvg) = <<>> THEN <<>>
            ELSE Tail(Declarations(generatedSvg)))

C22_Witness ==
  /\ Validated
  /\ pc = "returned"
  /\ Declarations(originalText) = <<XmlDecl>>
  /\ Declarations(generatedSvg) = <<XmlDeclUtf8>>
  /\ Declarations(textOut) = <<XmlDecl>>


ParameterNames == {"duration", "easing", "repeat", "direction"}

GenerationReturned == op = "generateAnimation" /\ pc = "returned"

\* C23 as stated: the parameters of the payload pass through unmodified: the
\* suggestedParams that generateAnimation returns has the duration, easing,
\* repeat and direction values of the payload's parameters.
C23_ParametersPassThrough ==
  GenerationReturned =>
    \A name \in ParameterNames \cap DOMAIN completion.parameters :
      response.suggestedParams[name] = completion.parameters[name]

\* a value that JavaScript takes for false: the number 0, the empty text
Falsy(name, value) ==
  IF name \in {"duration", "repeat"} THEN value = 0 ELSE value = ""

DefaultParameters == [duration |-> 1, easing |-> "ease", repeat |-> 0, direction |-> "normal"]

\* C23 amended: each of duration, easing, repeat and direction of the
\* returned suggestedParams is the payload's value when the payload has one
\* that is not falsy (0 or the empty text), and otherwise the default:
\* duration 1, easing 'ease', repeat 0, direction 'normal'.
C23_ParametersOrDefaults ==
  GenerationReturned =>
    /\ DOMAIN response.suggestedParams = ParameterNames
    /\ \A name \in ParameterNames :
         response.suggestedParams[name] =
           IF name \in DOMAIN completion.parameters /\ ~Falsy(name, completion.parameters[name])
           THEN completion.parameters[name]
           ELSE DefaultParameters[name]

C23_Witness ==
  /\ GenerationReturned
  /\ completion.parameters = FalsyParameters
  /\ response.suggestedParams =
       [duration |-> 1, easing |-> "ease", repeat |-> 3, direction |-> "normal"]


\* the numbers, in tenths, that the element carries in the attributes of names
CarriedValues(nd, names) ==
  {10 * NumeralValue[nd.attrs[name]] :
     name \in {a \in names \cap DOMAIN nd.attrs : nd.attrs[a] \in DOMAIN NumeralValue}}

Max(S) == CHOOSE x \in S : \A y \in S : y <= x

\* C24: for an element that is not a circle, rect or path, the box is the
\* minimum and maximum per axis over the attributes among x, x1, x2, cx and
\* y, y1, y2, cy that the element carries; an attribute that it does not
\* carry contributes no value.
C24_CarriedAttributesOnly ==
  Calculated =>
    \A k \in 2..svgContent.n :
      LET nd == svgContent.node[k]
          xs == CarriedValues(nd, {"x", "x1", "x2", "cx"})
          ys == CarriedValues(nd, {"y", "y1", "y2", "cy"})
      IN (nd.tag \notin {"circle", "rect", "path"} /\ xs # {} /\ ys # {}) =>
           boxes.element[k] = Box(Num(Min(xs)), Num(Min(ys)), Num(Max(xs)), Num(Max(ys)))


\* the tag of the node that a fragment adds
FirstTag(f) ==
  CASE f = FragAnimate -> "animate"
    [] f = FragTwo -> "animate"
    [] f = FragSet -> "set"
    [] OTHER -> "#text"

\* the tags of the nodes that the fragments of the entries for element k
\* add, in batch order and, within an entry, in the order of its list
RECURSIVE TagsFor(_, _)
TagsFor(entries, k) ==
  IF entries = <<>> THEN <<>>
  ELSE (IF TargetOf(svgContent, Head(entries).elementId) = k
        THEN [i \in DOMAIN Head(entries).animations |-> FirstTag(Head(entries).animations[i])]
        ELSE <<>>) \o TagsFor(Tail(entries), k)

\* C25: the fragments of the entries for an element become its last
\* children, after all the children it had, in the order of the entry's
\* list, the fragments of several entries for one element in batch order.
C25_FragmentOrder ==
  (op = "insertAnimations" /\ pc = "returned") =>
    \A k \in 1..svgContent.n :
      EntriesFor(k) # {} =>
        LET ks == spliceOut.node[k].kids
            old == svgContent.node[k].kids
            tags == TagsFor(animationElements, k)
            m == Len(tags)
        IN /\ Len(ks) >= Len(old) + m
           /\ \A i \in 1..Len(old) : ks[Len(ks) - m - Len(old) + i] = old[i]
           /\ \A i \in 1..m :
                /\ ks[Len(ks) - m + i] > svgContent.n
                /\ spliceOut.node[ks[Len(ks) - m + i]].tag = tags[i]

C25_Witness ==
  /\ op = "insertAnimations"
  /\ pc = "returned"
  /\ Len(animationElements) = 2
  /\ animationElements[1].animations = <<FragAnimate, FragSet>>
  /\ animationElements[2].animations = <<FragText>>
  /\ \E k \in 2..svgContent.n :
       /\ EntriesFor(k) = {1, 2}
       /\ Len(svgContent.node[k].kids) = 1
       /\ Len(spliceOut.node[k].kids) = 4
       /\ spliceOut.node[spliceOut.node[k].kids[2]].tag = "animate"
       /\ spliceOut.node[spliceOut.node[k].kids[3]].tag = "set"
       /\ spliceOut.node[spliceOut.node[k].kids[4]].tag = "#text"


\* request q gets its completion in this step and is answered with success
Succeeds(q) ==
  /\ inflight[q].phase = "awaiting"
  /\ inflight'[q].phase = "answered"
  /\ inflight'[q].status = 200

\* the two messages that a successful request adds to the transcript
Exchange(q) ==
  <<Message("user", inflight[q].body.description),
    Message("assistant", inflight'[q].completion.explanation)>>

\* C26: a successful create stores exactly the user message with the
\* description and the assistant message with the explanation; a successful
\* update stores the conversation stored before it, unchanged, followed by
\* exactly one user and one assistant message; no request touches the
\* conversation of another record.
C26_Transcript ==
  [][\A q \in 1..MaxRequests :
       Succeeds(q) =>
         IF inflight[q].route = "create"
         THEN /\ Len(db') = Len(db) + 1
              /\ db'[Len(db')].conversation = Exchange(q)
              /\ \A id \in DOMAIN db : db'[id].conversation = db[id].conversation
         ELSE /\ DOMAIN db' = DOMAIN db
              /\ \A id \in DOMAIN db :
                   db'[id].conversation =
                     IF id = inflight[q].id THEN db[id].conversation \o Exchange(q)
                     ELSE db[id].conversation]_vars


(***************************************************************************)
(* The Home page of the client (client/src/pages/home.tsx)                 *)
(*                                                                         *)
(* form.handleSubmit validates the form values against                     *)
(* insertAnimationSchema, which accepts every pair of strings, and then    *)
(* calls the callback in the same chain of microtasks: no other event of   *)
(* the page runs in between, so handleSendMessage is one step.  The read   *)
(* of the uploaded file is a task of its own: onFileChange ends at         *)
(* await file.text() and FileRead is its continuation.                     *)
(***************************************************************************)
MaxEvents == 3  \* toasts shown and mutation calls made

\* the data handed to mutation.mutate, with the selection the payload gets
Mutation(originalSvg, description, selection) ==
  [originalSvg |-> originalSvg, description |-> description, selectedElements |-> selection]

\* newSet.has(elementId) ? newSet.delete(elementId) : newSet.add(elementId)
handleElementSelect(selection, elementId) ==
  IF elementId \in selection THEN selection \ {elementId} ELSE selection \cup {elementId}

handleSendMessageUnchecked(originalSvg, selection, content, sent, shown) ==
  [mutations |-> Append(sent, Mutation(originalSvg, content, selection)), toasts |-> shown]

\* form.setValue("description", content); form.handleSubmit((data) => {...})()
handleSendMessage(originalSvg, selection, content, sent, shown) ==
  IF selection = {}
  THEN [mutations |-> sent, toasts |-> Append(shown, "No elements selected")]
  ELSE [mutations |-> Append(sent, Mutation(originalSvg, content, selection)), toasts |-> shown]

\* the files offered to the input: none, not an SVG, over 2MB, two SVG files
UploadFile(kind, text) == [kind |-> kind, text |-> text]
UploadFiles ==
  {UploadFile("none", ""), UploadFile("png", "p"), UploadFile("large", "l"),
   UploadFile("svg", "s1"), UploadFile("svg", "s2")}

PageIds == {"a", "b"}
Contents == {"spin"}

PageFrame ==
  UNCHANGED <<pc, svgContent, spliceVars, extractVars, textVars, genVars, routeVars, boxes, memVars>>

InitPage ==
  /\ PageIdle
  /\ MemIdle
  /\ pc = "call"
  /\ op = ""
  /\ svgContent = EmptyDoc
  /\ animationElements = <<>>
  /\ spliceOut = EmptyDoc
  /\ spliceErr = ""
  /\ selectedElements = <<>>
  /\ extractOut = EmptyDoc
  /\ extractErr = ""
  /\ TextIdle
  /\ GenIdle
  /\ RoutesIdle
  /\ boxes = NoBoxes

\* onFileChange up to await file.text()
OnFileChange(file) ==
  /\ reading = ""
  /\ Len(toasts) + Len(mutations) < MaxEvents
  /\ op' = "onFileChange"
  /\ toasts' = CASE file.kind = "png" -> Append(toasts, "Invalid file")
                 [] file.kind = "large" -> Append(toasts, "File too large")
                 [] OTHER -> toasts
  /\ reading' = IF file.kind = "svg" THEN file.text ELSE ""
  /\ UNCHANGED <<pageSvg, pageSelection, mutations>>
  /\ PageFrame

\* onFileChange from the text of the file on
FileRead ==
  /\ reading # ""
  /\ op' = "fileRead"
  /\ pageSvg' = reading
  /\ pageSelection' = {}
  /\ reading' = ""
  /\ UNCHANGED <<mutations, toasts>>
  /\ PageFrame

\* a click on an element of the original SVG that the page shows
HandleElementSelect(elementId) ==
  /\ pageSvg # ""
  /\ op' = "handleElementSelect"
  /\ pageSelection' = handleElementSelect(pageSelection, elementId)
  /\ UNCHANGED <<pageSvg, mutations, toasts, reading>>
  /\ PageFrame

HandleSendMessage(content) ==
  /\ Len(toasts) + Len(mutations) < MaxEvents
  /\ op' = "handleSendMessage"
  /\ LET r == handleSendMessage(pageSvg, pageSelection, content, mutations, toasts) IN
       /\ mutations' = r.mutations
       /\ toasts' = r.toasts
  /\ UNCHANGED <<pageSvg, pageSelection, reading>>
  /\ PageFrame

NextPage ==
  \/ \E file \in UploadFiles : OnFileChange(file)
  \/ FileRead
  \/ \E elementId \in PageIds : HandleElementSelect(elementId)
  \/ \E content \in Contents : HandleSendMessage(content)

SpecPage == InitPage /\ [][NextPage]_vars

\* C27: the client never calls the generation mutation while no element is
\* selected: every call carries a selection that is not empty, and a message
\* sent with an empty selection only shows the toast that asks for a
\* selection.
C27_NoRequestWithoutSelection ==
  /\ [](\A i \in DOMAIN mutations : mutations[i].selectedElements # {})
  /\ [][(op' = "handleSendMessage" /\ pageSelection = {}) =>
          /\ mutations' = mutations
          /\ toasts' = Append(toasts, "No elements selected")
          /\ pageSelection' = {}]_vars

C27_Witness ==
  /\ op = "handleSendMessage"
  /\ pageSelection = {}
  /\ Len(mutations) = 1
  /\ mutations[1].selectedElements = {"a"}
  /\ toasts = <<"No elements selected", "No elements selected">>


(***************************************************************************)
(* cleanupSvg (server/openai.ts)                                           *)
(***************************************************************************)
\* svg.replace(/<!--[\s\S]*?-->/g, '')
RECURSIVE removeComments(_)
removeComments(text) ==
  IF text = <<>> THEN <<>>
  ELSE IF matches("<!--[\\s\\S]*?-->", Head(text)) THEN removeComments(Tail(text))
  ELSE <<Head(text)>> \o removeComments(Tail(text))

\* a token that ends with > and starts with <
isTag(t) == t.kind # "text"

\* token k lies in a run of white space that reaches from a > to a <
betweenTags(text, k) ==
  /\ matches("\\s+", text[k])
  /\ \E a \in 1..(k - 1) :
       /\ isTag(text[a])
       /\ \A i \in (a + 1)..k : matches("\\s+", text[i])
  /\ \E b \in (k + 1)..Len(text) :
       /\ isTag(text[b])
       /\ \A i \in k..(b - 1) : matches("\\s+", text[i])

\* svg.replace(/>\s+</g, '><')
RECURSIVE collapseFrom(_, _)
collapseFrom(text, k) ==
  IF k > Len(text) THEN <<>>
  ELSE IF betweenTags(text, k) THEN collapseFrom(text, k + 1)
  ELSE <<text[k]>> \o collapseFrom(text, k + 1)

collapseWhitespace(text) == collapseFrom(text, 1)

\* the end of the match of /<g[^>]*>\s*<\/g>/ that starts at token k, 0 when
\* there is none
emptyGroupEnd(text, k) ==
  IF ~matches("<g[^>]*>", text[k]) THEN 0
  ELSE LET ends == {j \in (k + 1)..Len(text) :
                      /\ matches("<\\/g>", text[j])
                      /\ \A i \in (k + 1)..(j - 1) : matches("\\s+", text[i])}
       IN IF ends = {} THEN 0 ELSE Min(ends)

removeEmptyGroupsNever(text) == text

\* svg.replace(/<g[^>]*>\s*<\/g>/g, ''): the matches from left to right, none
\* starting inside another
RECURSIVE removeEmptyGroupsFrom(_, _)
removeEmptyGroupsFrom(text, k) ==
  IF k > Len(text) THEN <<>>
  ELSE IF emptyGroupEnd(text, k) # 0 THEN removeEmptyGroupsFrom(text, emptyGroupEnd(text, k) + 1)
  ELSE <<text[k]>> \o removeEmptyGroupsFrom(text, k + 1)

removeEmptyGroups(text) == removeEmptyGroupsFrom(text, 1)

\* String.prototype.trim on a text
RECURSIVE trimText(_)
trimText(text) ==
  IF text # <<>> /\ matches("\\s+", Head(text)) THEN trimText(Tail(text))
  ELSE IF text # <<>> /\ matches("\\s+", text[Len(text)])
       THEN trimText(SubSeq(text, 1, Len(text) - 1))
  ELSE text

cleanupSvg(text) ==
  trimText(removeEmptyGroups(collapseWhitespace(removeComments(text))))

(***************************************************************************)
(* cleanupSvg applied to the texts of at most MaxTokens tokens             *)
(***************************************************************************)
OpenGId == Token("open", "g", <<Attr(NameId, "a", "\"")>>)
Words == Token("text", "t", <<>>)

CleanupTokens == {OpenG, OpenGId, CloseG, Circle, Comment, Newline, Words}

CleanupTexts == SeqsUpTo(CleanupTokens, MaxTokens)

InitCleanup ==
  /\ PageIdle
  /\ MemIdle
  /\ pc = "call"
  /\ op = ""
  /\ generatedSvg \in CleanupTexts
  /\ originalText = <<>>
  /\ textOut = <<>>
  /\ complete = FALSE
  /\ textErr = ""
  /\ SpliceIdle
  /\ ExtractIdle
  /\ GenIdle
  /\ RoutesIdle
  /\ boxes = NoBoxes

CleanupSvg ==
  /\ pc = "call"
  /\ pc' = "returned"
  /\ op' = "cleanupSvg"
  /\ textOut' = cleanupSvg(generatedSvg)
  /\ UNCHANGED <<generatedSvg, originalText, complete, textErr>>
  /\ UNCHANGED <<svgContent, spliceVars, extractVars, genVars, routeVars, boxes, pageVars, memVars>>

NextCleanup == CleanupSvg

SpecCleanup == InitCleanup /\ [][NextCleanup]_vars

(***************************************************************************)
(* Properties of cleanupSvg                                                *)
(***************************************************************************)
Cleaned == op = "cleanupSvg" /\ pc = "returned"

HasComment(text) == \E i \in DOMAIN text : text[i].kind = "comment"

IsSpace(t) == t.kind = "text" /\ t.name \in {"\n", " "}

IsGroupOpen(t) == t.kind = "open" /\ t.name = "g"

IsGroupClose(t) == t.kind = "close" /\ t.name = "g"

\* an opening <g ...> tag followed, up to white space, directly by </g>
HasEmptyGroup(text) ==
  \E i, j \in DOMAIN text :
    /\ i < j
    /\ IsGroupOpen(text[i])
    /\ IsGroupClose(text[j])
    /\ \A k \in (i + 1)..(j - 1) : IsSpace(text[k])

RECURSIVE Significant(_)
Significant(text) ==
  IF text = <<>> THEN <<>>
  ELSE IF Head(text).kind = "comment" \/ IsSpace(Head(text)) THEN Significant(Tail(text))
  ELSE <<Head(text)>> \o Significant(Tail(text))

\* a group that holds empty groups and, up to comments and white space,
\* nothing else
HoldsOnlyEmptyGroups(text) ==
  LET s == Significant(text) IN
  \E i \in DOMAIN s, n \in 1..Len(s) :
    /\ i + 2 * n + 1 <= Len(s)
    /\ IsGroupOpen(s[i])
    /\ \A m \in 1..n : IsGroupOpen(s[i + 2 * m - 1]) /\ IsGroupClose(s[i + 2 * m])
    /\ IsGroupClose(s[i + 2 * n + 1])

MaxRecords == 2  \* records created in a MemStorage

Null == [null |-> TRUE, value |-> <<>>]
NotNull(value) == [null |-> FALSE, value |-> value]

\* the storage object: animations and currentId
Storage(animations, id) == [animations |-> animations, currentId |-> id]

StorageOk(store, animation) == [ok |-> TRUE, store |-> store, animation |-> animation, error |-> ""]
StorageThrow(store, msg) == [ok |-> FALSE, store |-> store, animation |-> <<>>, error |-> msg]

createAnimationSameId(store, insertAnimation) ==
  LET id == store.currentId
      animation == [originalSvg |-> insertAnimation.originalSvg,
                    description |-> insertAnimation.description,
                    id |-> id, animatedSvg |-> Null, error |-> Null]
  IN StorageOk(Storage((id :> animation) @@ store.animations, store.currentId), animation)

\* const id = this.currentId++; this.animations.set(id, {...insertAnimation, id, ...})
createAnimation(store, insertAnimation) ==
  LET id == store.currentId
      animation == [originalSvg |-> insertAnimation.originalSvg,
                    description |-> insertAnimation.description,
                    id |-> id, animatedSvg |-> Null, error |-> Null]
  IN StorageOk(Storage((id :> animation) @@ store.animations, store.currentId + 1), animation)

updateAnimationKeepingError(store, id, animatedSvg) ==
  IF id \notin DOMAIN store.animations THEN StorageThrow(store, "Animation not found")
  ELSE LET changed == [store.animations[id] EXCEPT !.animatedSvg = NotNull(animatedSvg)]
       IN StorageOk(Storage((id :> changed) @@ store.animations, store.currentId), changed)

updateAnimation(store, id, animatedSvg) ==
  IF id \notin DOMAIN store.animations THEN StorageThrow(store, "Animation not found")
  ELSE LET changed == [store.animations[id] EXCEPT !.animatedSvg = NotNull(animatedSvg),
                                                   !.error = Null]
       IN StorageOk(Storage((id :> changed) @@ store.animations, store.currentId), changed)

updateAnimationError(store, id, error) ==
  IF id \notin DOMAIN store.animations THEN StorageThrow(store, "Animation not found")
  ELSE LET changed == [store.animations[id] EXCEPT !.error = NotNull(error),
                                                   !.animatedSvg = Null]
       IN StorageOk(Storage((id :> changed) @@ store.animations, store.currentId), changed)

(***************************************************************************)
(* Specification of MemStorage: any sequence of calls                      *)
(***************************************************************************)
InsertAnimation(originalSvg, description) ==
  [originalSvg |-> originalSvg, description |-> description]

StoredTexts == {<<>>, <<SvgTag(<<>>), SvgClose>>, <<SvgTag(<<>>), Circle, SvgClose>>}
StoredErrors == {<<"Unknown error">>, <<"Failed to generate animation">>}
CallIds == 1..(MaxRecords + 1)

StorageFrame ==
  UNCHANGED <<svgContent, spliceVars, extractVars, textVars, genVars, routeVars, boxes,
              pageVars, handlers>>

InitStorage ==
  /\ PageIdle
  /\ MemIdle
  /\ pc = "call"
  /\ op = ""
  /\ svgContent = EmptyDoc
  /\ SpliceIdle
  /\ ExtractIdle
  /\ TextIdle
  /\ GenIdle
  /\ RoutesIdle
  /\ boxes = NoBoxes

\* the storage after a call and the answer of the call
Called(name, r) ==
  /\ op' = name
  /\ pc' = IF r.ok THEN "returned" ELSE "thrown"
  /\ records' = r.store.animations
  /\ currentId' = r.store.currentId
  /\ storageErr' = r.error
  /\ StorageFrame

CreateAnimation(insertAnimation) ==
  /\ currentId <= MaxRecords
  /\ storageCall' = [name |-> "createAnimation", id |-> 0]
  /\ Called("createAnimation", createAnimation(Storage(records, currentId), insertAnimation))

UpdateAnimation(id, animatedSvg) ==
  /\ storageCall' = [name |-> "updateAnimation", id |-> id]
  /\ Called("updateAnimation", updateAnimation(Storage(records, currentId), id, animatedSvg))

UpdateAnimationError(id, error) ==
  /\ storageCall' = [name |-> "updateAnimationError", id |-> id]
  /\ Called("updateAnimationError", updateAnimationError(Storage(records, currentId), id, error))

NextStorage ==
  \/ CreateAnimation(InsertAnimation(<<SvgTag(<<>>), SvgClose>>, "spin"))
  \/ \E id \in CallIds, animatedSvg \in StoredTexts : UpdateAnimation(id, animatedSvg)
  \/ \E id \in CallIds, error \in StoredErrors : UpdateAnimationError(id, error)

SpecStorage == InitStorage /\ [][NextStorage]_vars

(***************************************************************************)
(* Properties of MemStorage                                                *)
(***************************************************************************)
Updates == {"updateAnimation", "updateAnimationError"}

\* C29: in MemStorage no stored record has both an animatedSvg and an error
\* that are not null, and updateAnimation or updateAnimationError called with
\* an id that was never created raises 'Animation not found' and leaves
\* every stored record as it was.
C29_ResultOrError ==
  /\ [](\A id \in DOMAIN records : records[id].animatedSvg.null \/ records[id].error.null)
  /\ [][(storageCall'.name \in Updates /\ storageCall'.id \notin DOMAIN records) =>
          /\ pc' = "thrown"
          /\ storageErr' = "Animation not found"
          /\ records' = records]_vars

C29_Witness ==
  /\ pc = "thrown"
  /\ storageCall = [name |-> "updateAnimation", id |-> 2]
  /\ storageErr = "Animation not found"
  /\ DOMAIN records = {1}
  /\ ~records[1].animatedSvg.null
  /\ records[1].error.null


(***************************************************************************)
(* POST /api/animations backed by MemStorage (part_024, part_023)          *)
(*                                                                         *)
(* handlers[q] is the state of request q: where its handler stands, the    *)
(* parsed body, the id of the record it created, what generateSvgAnimation *)
(* settled with, and the status and the JSON it answered.  A message is    *)
(* the sequence of the parts it is put together from.  The lengths of the  *)
(* cleaned SVG and of the description in characters, which the texts of    *)
(* tokens do not carry, come with the body.                                *)
(***************************************************************************)
MaxHandlers == 2  \* requests to POST /api/animations

Ceil(n, d) == (n + d - 1) \div d

Resolved(text) == [ok |-> TRUE, text |-> text, error |-> <<>>]
Rejected(error) == [ok |-> FALSE, text |-> <<>>, error |-> error]

\* message || fallback
messageOr(message, fallback) == IF message = <<>> THEN <<fallback>> ELSE message

\* throw new Error(`Failed to generate animation: ${error?.message || 'Unknown error'}`)
Failed(message) ==
  Rejected(<<"Failed to generate animation: ">> \o messageOr(message, "Unknown error"))

\* svgTokens + descriptionTokens > maxInputTokens
tooComplex(cleanedLength, descriptionLength) ==
  Ceil(cleanedLength, 3) + Ceil(descriptionLength, 4) > 5000

\* generatedSvg.match(/<\?xml[\s\S]*<\/svg>/): from the first declaration to the
\* last </svg> after it, the whole text when there is no such match
extractSvg(text) ==
  LET first == search(text, "<\\?xml[^>]*\\?>")
      closes == {j \in DOMAIN text : j > first /\ matches("<\\/svg>", text[j])}
  IN IF first = 0 \/ closes = {} THEN text
     ELSE SubSeq(text, first, CHOOSE j \in closes : \A k \in closes : k <= j)

\* what the promise of generateSvgAnimation(svg, description) settles with when
\* the completion is reply: rejected, without content, or with a content
generateSvgAnimation(svg, cleanedLength, descriptionLength, reply) ==
  IF tooComplex(cleanedLength, descriptionLength)
  THEN Failed(<<"SVG file is too complex. Please simplify the SVG or break it into smaller parts.">>)
  ELSE IF reply.kind = "rejected" THEN Failed(reply.message)
  ELSE IF reply.kind = "null" \/ reply.text = <<>> THEN Failed(<<"No SVG animation generated">>)
  ELSE IF ~verifyCompleteSvg(extractSvg(reply.text))
  THEN Failed(<<"Generated SVG is incomplete or malformed">>)
  ELSE LET validated == validateSvgStructure(extractSvg(reply.text), svg)
       IN IF validated.ok THEN Resolved(validated.text) ELSE Failed(<<validated.error>>)

(***************************************************************************)
(* Specification of the route: MaxHandlers requests, each one stepping     *)
(* from one await to the next, interleaved in any order                    *)
(***************************************************************************)
Posted(valid, originalSvg, cleanedLength) ==
  [valid |-> valid, originalSvg |-> originalSvg, description |-> "spin",
   cleanedLength |-> cleanedLength, descriptionLength |-> 4]

NothingPosted == Posted(FALSE, <<>>, 0)

PostedBodies ==
  {NothingPosted,
   Posted(TRUE, <<Circle>>, 9),
   Posted(TRUE, <<XmlDecl, SvgTag(<<Attr(NameWidth, "10", "\"")>>), Circle, SvgClose>>, 60),
   Posted(TRUE, <<SvgTag(<<Attr(NameWidth, "20", "\"")>>), Circle, SvgClose>>, 40),
   Posted(TRUE, <<SvgTag(<<Attr(NameWidth, "20", "\"")>>), Circle, SvgClose>>, 15000)}

\* the completions: verifyCompleteSvg counts the declaration among the opening
\* tags, so it accepts a content only when it has one closing tag more than
\* opening tags
Content(text) == [kind |-> "content", text |-> text, message |-> <<>>]

Answers ==
  {[kind |-> "rejected", text |-> <<>>, message |-> <<"Connection error.">>],
   [kind |-> "rejected", text |-> <<>>, message |-> <<>>],
   [kind |-> "null", text |-> <<>>, message |-> <<>>],
   Content(<<SvgTag(<<>>), Circle>>),
   Content(<<XmlDecl, SvgTag(<<>>), Circle, SvgClose>>),
   Content(<<XmlDecl, SvgTag(<<>>), OpenG, CloseG, CloseG, SvgClose>>),
   Content(<<Words, XmlDecl, SvgTag(<<>>), Circle, SvgClose, SvgClose, Words>>)}

Idle ==
  [phase |-> "idle", body |-> NothingPosted, id |-> 0, settled |-> Resolved(<<>>),
   status |-> 0, json |-> [message |-> <<>>]]

MemRoutesFrame ==
  UNCHANGED <<pc, op, svgContent, spliceVars, extractVars, textVars, genVars, routeVars,
              boxes, pageVars, storageCall, storageErr>>

InitMemRoutes ==
  /\ PageIdle
  /\ records = <<>>
  /\ currentId = 1
  /\ handlers = [q \in 1..MaxHandlers |-> Idle]
  /\ storageCall = [name |-> "", id |-> 0]
  /\ storageErr = ""
  /\ pc = "serving"
  /\ op = ""
  /\ svgContent = EmptyDoc
  /\ SpliceIdle
  /\ ExtractIdle
  /\ TextIdle
  /\ GenIdle
  /\ RoutesIdle
  /\ boxes = NoBoxes

\* res.status(status).json(json)
Answer(q, status, json) ==
  handlers' = [handlers EXCEPT ![q].phase = "answered", ![q].status = status, ![q].json = json]

\* the store after a call of MemStorage
Stored(r) ==
  /\ records' = r.store.animations
  /\ currentId' = r.store.currentId

\* insertAnimationSchema.parse(req.body) and storage.createAnimation(data), up to
\* its await (part_024)
PostAnimation(q, body) ==
  /\ handlers[q].phase = "idle"
  /\ IF ~body.valid
     THEN /\ Answer(q, 400, [message |-> <<"ZodError">>])
          /\ UNCHANGED <<records, currentId>>
     ELSE LET r == createAnimation(Storage(records, currentId),
                                   InsertAnimation(body.originalSvg, body.description))
          IN /\ Stored(r)
             /\ handlers' = [handlers EXCEPT ![q].phase = "created", ![q].body = body,
                                             ![q].id = r.animation.id]
  /\ MemRoutesFrame

\* the same with the check of data.originalSvg.includes('<svg') before the
\* record is created (part_023)
PostAnimationChecked(q, body) ==
  /\ handlers[q].phase = "idle"
  /\ IF body.valid /\ ~test(body.originalSvg, "<svg[^>]*>")
     THEN /\ Answer(q, 400, [message |-> <<"Invalid SVG file">>])
          /\ UNCHANGED <<records, currentId>>
          /\ MemRoutesFrame
     ELSE PostAnimation(q, body)

\* generateSvgAnimation(data.originalSvg, data.description) up to the await of
\* the completion: the token estimate throws, or the request goes out
Generate(q) ==
  /\ handlers[q].phase = "created"
  /\ handlers' =
       IF tooComplex(handlers[q].body.cleanedLength, handlers[q].body.descriptionLength)
       THEN [handlers EXCEPT ![q].phase = "settled",
                             ![q].settled =
                               generateSvgAnimation(handlers[q].body.originalSvg,
                                                    handlers[q].body.cleanedLength,
                                                    handlers[q].body.descriptionLength,
                                                    Content(<<>>))]
       ELSE [handlers EXCEPT ![q].phase = "awaiting"]
  /\ UNCHANGED <<records, currentId>>
  /\ MemRoutesFrame

\* the completion arrives and generateSvgAnimation settles
Complete(q, reply) ==
  /\ handlers[q].phase = "awaiting"
  /\ handlers' = [handlers EXCEPT ![q].phase = "settled",
                                  ![q].settled =
                                    generateSvgAnimation(handlers[q].body.originalSvg,
                                                         handlers[q].body.cleanedLength,
                                                         handlers[q].body.descriptionLength,
                                                         reply)]
  /\ UNCHANGED <<records, currentId>>
  /\ MemRoutesFrame

\* the handler goes on after the await of generateSvgAnimation: updateAnimation
\* and res.json(updated), or in the catch updateAnimationError and
\* res.status(500).json(updated); an update that throws goes to the next catch
Update(q) ==
  /\ handlers[q].phase = "settled"
  /\ LET store == Storage(records, currentId)
         r == IF handlers[q].settled.ok
              THEN updateAnimation(store, handlers[q].id, handlers[q].settled.text)
              ELSE updateAnimationError(store, handlers[q].id,
                                        messageOr(handlers[q].settled.error, "Unknown error"))
     IN /\ Stored(r)
        /\ IF r.ok THEN Answer(q, IF handlers[q].settled.ok THEN 200 ELSE 500, r.animation)
           ELSE IF handlers[q].settled.ok
           THEN handlers' = [handlers EXCEPT ![q].settled = Rejected(<<r.error>>)]
           ELSE Answer(q, 400, [message |-> messageOr(<<r.error>>, "Invalid request")])
  /\ MemRoutesFrame

NextMemRoutes ==
  \/ \E q \in 1..MaxHandlers, body \in PostedBodies : PostAnimation(q, body)
  \/ \E q \in 1..MaxHandlers, body \in PostedBodies : PostAnimationChecked(q, body)
  \/ \E q \in 1..MaxHandlers : Generate(q)
  \/ \E q \in 1..MaxHandlers, reply \in Answers : Complete(q, reply)
  \/ \E q \in 1..MaxHandlers : Update(q)

SpecMemRoutes == InitMemRoutes /\ [][NextMemRoutes]_vars

(***************************************************************************)
(* Properties of the route backed by MemStorage                            *)
(***************************************************************************)
Creators == {q \in 1..MaxHandlers : handlers[q].id # 0}

Pending == {"created", "awaiting", "settled"}

\* C30: whatever the interleaving of the requests, the record a request
\* created is updated by that request with the animatedSvg its own
\* generateSvgAnimation returned (answered 200) or with the error it threw
\* (answered 500); no request writes the record of another, and no record is
\* left with animatedSvg and error both null once its request has answered.
C30_OwnRecordUpdated ==
  /\ \A q \in Creators :
       /\ handlers[q].id \in DOMAIN records
       /\ records[handlers[q].id].originalSvg = handlers[q].body.originalSvg
       /\ \A p \in Creators : p # q => handlers[p].id # handlers[q].id
       /\ handlers[q].phase \in Pending =>
            /\ records[handlers[q].id].animatedSvg.null
            /\ records[handlers[q].id].error.null
       /\ handlers[q].phase = "answered" =>
            /\ handlers[q].status = (IF handlers[q].settled.ok THEN 200 ELSE 500)
            /\ handlers[q].json = records[handlers[q].id]
            /\ records[handlers[q].id].animatedSvg =
                 (IF handlers[q].settled.ok THEN NotNull(handlers[q].settled.text) ELSE Null)
            /\ records[handlers[q].id].error =
                 (IF handlers[q].settled.ok THEN Null ELSE NotNull(handlers[q].settled.error))
  /\ \A id \in DOMAIN records : \E q \in Creators : handlers[q].id = id

C30_Witness ==
  /\ handlers[1].phase = "answered"
  /\ handlers[2].phase = "answered"
  /\ handlers[1].id = 2
  /\ handlers[2].id = 1
  /\ handlers[1].status = 200
  /\ handlers[2].status = 500
  /\ ~records[2].animatedSvg.null
  /\ ~records[1].error.null

====
